---- MODULE Spec2Model ----
(***************************************************************************)
(* The add/search queue of one *Arr service tab (ArrTab,                   *)
(* src/plugins/plugin_arr_base.py) together with the Qt machinery that     *)
(* drives it: the ApiWorker running on a QThread, the posted-event queue   *)
(* of the GUI thread through which worker.finished, thread.quit and the    *)
(* thread.finished lambdas are delivered, and the modal dialogs whose      *)
(* nested event loop keeps delivering posted events while a handler waits. *)
(***************************************************************************)
EXTENDS Integers, Sequences, FiniteSets, TLC

\* ---------------------------------------------------------------- bounds
MaxTerms == 2      \* search terms submitted over one run (each is a fresh entry)
MaxCsvRows == 2    \* usable rows in an imported CSV file
MaxResults == 2    \* candidates returned by one lookup
MaxProwlarr == 2   \* results returned by one indexer search

VARIABLES
    terms_to_add_queue,        \* self.terms_to_add_queue: pending search terms
    items_to_add_queue,        \* self.items_to_add_queue: pending add items
    terms_to_add_total_count,  \* self.terms_to_add_total_count
    current_search_term,       \* self.current_search_term
    current_search_type,       \* self.current_search_type
    search_thread,             \* self.search_thread: the operation it runs, or None
    combo_root_folder,         \* entries of the root-folder combo box
    combo_quality_profile,     \* entries of the quality-profile combo box
    posted,                    \* posted-event queue of the GUI thread (FIFO)
    threads,                   \* QThreads started and not yet finished
    modal,                     \* the modal dialog a handler is waiting in
    nextTerm,                  \* identity given to the next submitted term
    adv,                       \* the last process_next_item_in_queue call
    ev,                        \* the last handler that ran, and what it showed
    last_submitted,            \* the candidate of the last add operation started
    call,                      \* the last worker task run on its own: input and outcome
    status_thread,             \* self.status_thread
    folders_thread,            \* self.folders_thread
    profiles_thread,           \* self.profiles_thread
    buttons,                   \* isEnabled() of the status and refresh buttons
    cleaned_up,                \* the plugin's cleanup() has been called
    connections,               \* event bus: the slots connected to each signal
    tabs,                      \* the queue fields of the tabs on the event bus
    bus_ev                     \* the last subscribe or publish call, and its effect

\* The other workers of the tab, its end of life, and the event bus.
env_vars == << status_thread, folders_thread, profiles_thread, buttons,
               cleaned_up, connections, tabs, bus_ev >>

vars == << terms_to_add_queue, items_to_add_queue, terms_to_add_total_count,
           current_search_term, current_search_type, search_thread,
           combo_root_folder, combo_quality_profile, posted, threads, modal,
           nextTerm, adv, ev, last_submitted, call, env_vars >>

\* ------------------------------------------------------------ value sets
TermIds == 1..MaxTerms
Cands == TermIds \X (1..MaxResults)

service_name == "radarr"

NoItem == [item_json |-> <<0, 0>>, root_folder_id |-> 0,
           quality_profile_id |-> 0, search_type |-> ""]

\* Python's None for self.search_thread, and for an operation not started.
None == [task |-> "none", term |-> 0, search_type |-> "", item_data |-> NoItem]

SearchOp(term, stype) ==
    [task |-> "search", term |-> term, search_type |-> stype, item_data |-> NoItem]

AddOp(item_data) ==
    [task |-> "add", term |-> 0, search_type |-> "", item_data |-> item_data]

\* The operation of a status check or a refresh: task is "status", "folders"
\* or "profiles".
RefreshOp(task) ==
    [task |-> task, term |-> 0, search_type |-> "", item_data |-> NoItem]

\* Texts a user or a publisher can hand in; "t" stands for any usable term.
Texts == {"", " ", "t"}

\* str.strip() on those texts.
Strip(text) == IF text = " " THEN "" ELSE text

\* str.lower() on the service names an add request can carry.
Lower(name) == IF name = "RADARR" THEN "radarr" ELSE name

RequestServices == {"radarr", "RADARR", "sonarr"}

\* search_type of an add request: None (""), or the type Jellyfin publishes.
RequestTypes == {"", "movie"}

\* What a refresh can load into a combo box: nothing, or one entry (one of two
\* for the root folders).
FolderLists == {<< >>, <<1>>, <<2>>}
ProfileLists == {<< >>, <<1>>}

\* Error messages, by what on_add_finished looks for in them.
Errors == {"cfg", "net", "400exists"}
Has400(error) == error = "400exists"
HasAlreadyOrExist(error) == error = "400exists"

\* QComboBox.currentData(): the first entry is current after a reload; None (0)
\* when the box is empty.
currentData(combo) == IF Len(combo) = 0 THEN 0 ELSE combo[1]

\* The tab's queue fields as one value, so that handlers compose as functions.
Self ==
    [terms_to_add_queue       |-> terms_to_add_queue,
     items_to_add_queue       |-> items_to_add_queue,
     terms_to_add_total_count |-> terms_to_add_total_count,
     current_search_term      |-> current_search_term,
     current_search_type      |-> current_search_type,
     search_thread            |-> search_thread]


\* ---------------------------------------------------- ArrTab, as functions
\* _start_worker that returns without starting anything.
_start_worker_refusing(s, op) == [tab |-> s, started |-> None]

\* _start_worker without its "already running" guard.
_start_worker_always(s, op) ==
    [tab |-> [s EXCEPT !.search_thread = op], started |-> op]

\* _start_worker("search_thread", "search_worker", task, slot, **kwargs):
\* refuses when the attribute is not None, else stores the new thread (and its
\* worker in search_worker, which nothing reads) and starts the thread.
_start_worker(s, op) ==
    IF s.search_thread # None
    THEN [tab |-> s, started |-> None]
    ELSE [tab |-> [s EXCEPT !.search_thread = op],
          started |-> op]

_run_search_worker(s, term) ==
    _start_worker(s, SearchOp(term, s.current_search_type))

_run_add_worker(s, item_data) ==
    _start_worker(s, AddOp(item_data))

\* process_next_item_in_queue() without its "already processing" guard.
process_next_item_in_queue_unguarded(s) ==
    IF s.items_to_add_queue # << >>
    THEN LET w == _run_add_worker([s EXCEPT !.items_to_add_queue = Tail(@)],
                                  Head(s.items_to_add_queue))
         IN  [tab |-> w.tab, started |-> w.started, outcome |-> "add"]
    ELSE IF s.terms_to_add_queue # << >>
    THEN LET term == Head(s.terms_to_add_queue)
             w == _run_search_worker(
                    [s EXCEPT !.current_search_term = term,
                              !.terms_to_add_queue = Tail(@)], term)
         IN  [tab |-> w.tab, started |-> w.started, outcome |-> "search"]
    ELSE IF s.terms_to_add_total_count > 0
    THEN [tab |-> [s EXCEPT !.terms_to_add_total_count = 0],
          started |-> None, outcome |-> "complete"]
    ELSE [tab |-> s, started |-> None, outcome |-> "idle"]

\* process_next_item_in_queue() with its two queue branches in the other order.
process_next_item_in_queue_terms_first(s) ==
    IF s.search_thread # None
    THEN [tab |-> s, started |-> None, outcome |-> "rejected"]
    ELSE IF s.terms_to_add_queue # << >>
    THEN LET term == Head(s.terms_to_add_queue)
             w == _run_search_worker(
                    [s EXCEPT !.current_search_term = term,
                              !.terms_to_add_queue = Tail(@)], term)
         IN  [tab |-> w.tab, started |-> w.started, outcome |-> "search"]
    ELSE IF s.items_to_add_queue # << >>
    THEN LET w == _run_add_worker([s EXCEPT !.items_to_add_queue = Tail(@)],
                                  Head(s.items_to_add_queue))
         IN  [tab |-> w.tab, started |-> w.started, outcome |-> "add"]
    ELSE IF s.terms_to_add_total_count > 0
    THEN [tab |-> [s EXCEPT !.terms_to_add_total_count = 0],
          started |-> None, outcome |-> "complete"]
    ELSE [tab |-> s, started |-> None, outcome |-> "idle"]

\* process_next_item_in_queue() reading queue[0] where the code has pop(0).
process_next_item_in_queue_no_pop(s) ==
    IF s.search_thread # None
    THEN [tab |-> s, started |-> None, outcome |-> "rejected"]
    ELSE IF s.items_to_add_queue # << >>
    THEN LET w == _run_add_worker(s, Head(s.items_to_add_queue))
         IN  [tab |-> w.tab, started |-> w.started, outcome |-> "add"]
    ELSE IF s.terms_to_add_queue # << >>
    THEN LET term == Head(s.terms_to_add_queue)
             w == _run_search_worker([s EXCEPT !.current_search_term = term],
                                     term)
         IN  [tab |-> w.tab, started |-> w.started, outcome |-> "search"]
    ELSE IF s.terms_to_add_total_count > 0
    THEN [tab |-> [s EXCEPT !.terms_to_add_total_count = 0],
          started |-> None, outcome |-> "complete"]
    ELSE [tab |-> s, started |-> None, outcome |-> "idle"]

\* process_next_item_in_queue() that leaves the counter as it is after the
\* "Complete" box.
process_next_item_in_queue_no_reset(s) ==
    IF s.search_thread # None
    THEN [tab |-> s, started |-> None, outcome |-> "rejected"]
    ELSE IF s.items_to_add_queue # << >>
    THEN LET w == _run_add_worker([s EXCEPT !.items_to_add_queue = Tail(@)],
                                  Head(s.items_to_add_queue))
         IN  [tab |-> w.tab, started |-> w.started, outcome |-> "add"]
    ELSE IF s.terms_to_add_queue # << >>
    THEN LET term == Head(s.terms_to_add_queue)
             w == _run_search_worker(
                    [s EXCEPT !.current_search_term = term,
                              !.terms_to_add_queue = Tail(@)], term)
         IN  [tab |-> w.tab, started |-> w.started, outcome |-> "search"]
    ELSE IF s.terms_to_add_total_count > 0
    THEN [tab |-> s, started |-> None, outcome |-> "complete"]
    ELSE [tab |-> s, started |-> None, outcome |-> "idle"]

\* process_next_item_in_queue() with pop() where the code has pop(0).
process_next_item_in_queue_lifo(s) ==
    IF s.search_thread # None
    THEN [tab |-> s, started |-> None, outcome |-> "rejected"]
    ELSE IF s.items_to_add_queue # << >>
    THEN LET n == Len(s.items_to_add_queue)
             w == _run_add_worker(
                    [s EXCEPT !.items_to_add_queue = SubSeq(@, 1, n - 1)],
                    s.items_to_add_queue[n])
         IN  [tab |-> w.tab, started |-> w.started, outcome |-> "add"]
    ELSE IF s.terms_to_add_queue # << >>
    THEN LET n == Len(s.terms_to_add_queue)
             term == s.terms_to_add_queue[n]
             w == _run_search_worker(
                    [s EXCEPT !.current_search_term = term,
                              !.terms_to_add_queue = SubSeq(@, 1, n - 1)], term)
         IN  [tab |-> w.tab, started |-> w.started, outcome |-> "search"]
    ELSE IF s.terms_to_add_total_count > 0
    THEN [tab |-> [s EXCEPT !.terms_to_add_total_count = 0],
          started |-> None, outcome |-> "complete"]
    ELSE [tab |-> s, started |-> None, outcome |-> "idle"]

\* process_next_item_in_queue(): the branch taken is reported as outcome.
process_next_item_in_queue(s) ==
    IF s.search_thread # None
    THEN [tab |-> s, started |-> None, outcome |-> "rejected"]
    ELSE IF s.items_to_add_queue # << >>
    THEN LET item_data == Head(s.items_to_add_queue)
             w == _run_add_worker(
                    [s EXCEPT !.items_to_add_queue = Tail(@)], item_data)
         IN  [tab |-> w.tab, started |-> w.started, outcome |-> "add"]
    ELSE IF s.terms_to_add_queue # << >>
    THEN LET term == Head(s.terms_to_add_queue)
             w == _run_search_worker(
                    [s EXCEPT !.current_search_term = term,
                              !.terms_to_add_queue = Tail(@)], term)
         IN  [tab |-> w.tab, started |-> w.started, outcome |-> "search"]
    ELSE IF s.terms_to_add_total_count > 0
    THEN [tab |-> [s EXCEPT !.terms_to_add_total_count = 0],
          started |-> None, outcome |-> "complete"]
    ELSE [tab |-> s, started |-> None, outcome |-> "idle"]

\* _validate_inputs() that leaves the queues as they are on success.
_validate_inputs_keep_queues(s, search_term, root_count, profile_count) ==
    IF search_term # "N/A" /\ search_term = ""
    THEN [ok |-> FALSE, tab |-> s, dialog |-> "No Input"]
    ELSE IF root_count = 0
    THEN [ok |-> FALSE, tab |-> s, dialog |-> "No Root Folder"]
    ELSE IF profile_count = 0
    THEN [ok |-> FALSE, tab |-> s, dialog |-> "No Quality Profile"]
    ELSE [ok |-> TRUE, tab |-> s, dialog |-> ""]

\* _validate_inputs() without the quality-profile check.
_validate_inputs_no_profile_check(s, search_term, root_count, profile_count) ==
    IF search_term # "N/A" /\ search_term = ""
    THEN [ok |-> FALSE, tab |-> s, dialog |-> "No Input"]
    ELSE IF root_count = 0
    THEN [ok |-> FALSE, tab |-> s, dialog |-> "No Root Folder"]
    ELSE [ok |-> TRUE,
          tab |-> [s EXCEPT !.terms_to_add_queue = << >>,
                            !.items_to_add_queue = << >>],
          dialog |-> ""]

\* _validate_inputs(search_term): "N/A" is the CSV call. On success both
\* queues are emptied.
_validate_inputs(s, search_term, root_count, profile_count) ==
    IF search_term # "N/A" /\ search_term = ""
    THEN [ok |-> FALSE, tab |-> s, dialog |-> "No Input"]
    ELSE IF root_count = 0
    THEN [ok |-> FALSE, tab |-> s, dialog |-> "No Root Folder"]
    ELSE IF profile_count = 0
    THEN [ok |-> FALSE, tab |-> s, dialog |-> "No Quality Profile"]
    ELSE [ok |-> TRUE,
          tab |-> [s EXCEPT !.terms_to_add_queue = << >>,
                            !.items_to_add_queue = << >>],
          dialog |-> ""]

\* on_item_selected without its check of the two combo boxes.
on_item_selected_unchecked(s, item_json, root_data, profile_data) ==
    [s EXCEPT !.items_to_add_queue =
        Append(@, [item_json |-> item_json,
                   root_folder_id |-> root_data,
                   quality_profile_id |-> profile_data,
                   search_type |-> s.current_search_type])]

\* on_item_selected that records the first root folder, whichever is current.
on_item_selected_first_root(s, item_json, root_data, profile_data) ==
    IF root_data = 0 \/ profile_data = 0
    THEN s
    ELSE [s EXCEPT !.items_to_add_queue =
            Append(@, [item_json |-> item_json,
                       root_folder_id |-> 1,
                       quality_profile_id |-> profile_data,
                       search_type |-> s.current_search_type])]

\* on_item_selected(item_json): reads both combo boxes now; appends nothing
\* when either has no current data.
on_item_selected(s, item_json, root_data, profile_data) ==
    IF root_data = 0 \/ profile_data = 0
    THEN s
    ELSE [s EXCEPT !.items_to_add_queue =
            Append(@, [item_json |-> item_json,
                       root_folder_id |-> root_data,
                       quality_profile_id |-> profile_data,
                       search_type |-> s.current_search_type])]

\* The loop over selected_items stopping after the first item.
SelectAll_first_only(s, selected_items, root_data, profile_data) ==
    IF selected_items = << >>
    THEN s
    ELSE on_item_selected(s, Head(selected_items), root_data, profile_data)

\* for item in selected_items: self.on_item_selected(item)
RECURSIVE SelectAll(_, _, _, _)
SelectAll(s, selected_items, root_data, profile_data) ==
    IF selected_items = << >>
    THEN s
    ELSE SelectAll(on_item_selected(s, Head(selected_items), root_data, profile_data),
                   Tail(selected_items), root_data, profile_data)

\* on_search_finished with a chooser for a single candidate too.
on_search_finished_branch_no_auto(ok, error, result) ==
    IF error # "" \/ ~ok THEN "error"
    ELSE IF result = << >> THEN "skip"
    ELSE "chooser"

\* The if-chain of on_search_finished(result, error): ~ok is `result is None`.
on_search_finished_branch(ok, error, result) ==
    IF error # "" \/ ~ok THEN "error"
    ELSE IF result = << >> THEN "skip"
    ELSE IF Len(result) = 1 THEN "auto"
    ELSE "chooser"

\* ------------------------------------------------ observation of one step
NoAdv == [caller |-> "", busy |-> FALSE, items |-> << >>, terms |-> << >>,
          total |-> 0, outcome |-> "", started |-> None]

NoEv == [name |-> "", dialog |-> "", accepted |-> FALSE, no_input |-> FALSE,
         discarded |-> 0, error |-> "", results |-> 0, selected |-> 0,
         published |-> FALSE, record |-> <<0, 0>>]

NoModal == [dlg |-> "none", result |-> << >>, error |-> ""]

NoCall == [name |-> "", done |-> TRUE]

\* The tab's fields after a handler whose last statement is
\* process_next_item_in_queue(), called on the tab value s: r is what that
\* call returned.  A started operation is a new running QThread.
Commit(caller, s, r) ==
    /\ terms_to_add_queue' = r.tab.terms_to_add_queue
    /\ items_to_add_queue' = r.tab.items_to_add_queue
    /\ terms_to_add_total_count' = r.tab.terms_to_add_total_count
    /\ current_search_term' = r.tab.current_search_term
    /\ current_search_type' = r.tab.current_search_type
    /\ search_thread' = r.tab.search_thread
    /\ threads' = IF r.started = None THEN threads
                  ELSE threads \cup {[op |-> r.started, phase |-> "run"]}
    /\ adv' = [caller |-> caller, busy |-> s.search_thread # None,
               items |-> s.items_to_add_queue, terms |-> s.terms_to_add_queue,
               total |-> s.terms_to_add_total_count,
               outcome |-> r.outcome, started |-> r.started]
    /\ last_submitted' = IF r.started.task = "add"
                         THEN r.started.item_data.item_json
                         ELSE last_submitted
    /\ UNCHANGED << call, env_vars >>

TabUnchanged ==
    UNCHANGED << terms_to_add_queue, items_to_add_queue,
                 terms_to_add_total_count, current_search_term,
                 current_search_type, search_thread >>

HistoryUnchanged == UNCHANGED << last_submitted, call, env_vars >>


\* ------------------------------------------------------------- event bus
\* The signals EventBus declares: its registry of events.
Registry ==
    {"item_added", "item_identified", "service_status_changed",
     "search_completed", "refresh_requested", "settings_changed",
     "add_to_arr_requested", "request_all_status", "custom_event"}

\* The signals EventBus inherits from QObject, and its methods: attributes of
\* the bus as well.
QObjectSignals == {"destroyed", "objectNameChanged"}
BusMethods == {"publish", "subscribe", "unsubscribe", "clear"}

\* The event names handed to subscribe and publish.
EventNames ==
    {"add_to_arr_requested", "item_added", "filesystem_delete_failure",
     "destroyed", "publish"}

\* hasattr(self, event_name)
hasattr(event_name) == event_name \in Registry \cup QObjectSignals \cup BusMethods

\* getattr(self, event_name) has connect and emit: it is a signal.
IsSignal(event_name) == event_name \in Registry \cup QObjectSignals

\* The tabs on the bus, by service name; the slot of a tab is its
\* _on_add_request and is named as the tab.  "handler" is any other slot.
TabNames == {"radarr", "sonarr"}

\* subscribe and publish validating against the declared signals.
subscribe_registry_only(conn, event_name, slot) ==
    IF event_name \in Registry
    THEN [conn EXCEPT ![event_name] = @ \cup {slot}]
    ELSE conn

\* subscribe(event_name, slot): connects the slot if the bus has the attribute
\* and the attribute is a signal; an attribute without connect raises, which
\* is caught and logged as an error; an unknown name is logged as a warning.
subscribe(conn, event_name, slot) ==
    IF hasattr(event_name)
    THEN IF IsSignal(event_name)
         THEN [conn EXCEPT ![event_name] = @ \cup {slot}]
         ELSE conn
    ELSE conn

\* publish(event_name, *args): the slots signal.emit invokes, none when the
\* attribute has no emit (caught, logged) or the name is unknown (logged).
publish(conn, event_name) ==
    IF hasattr(event_name)
    THEN IF IsSignal(event_name) THEN conn[event_name] ELSE {}
    ELSE {}

\* What the call logs.
bus_log(event_name) ==
    IF hasattr(event_name)
    THEN IF IsSignal(event_name) THEN "debug" ELSE "error"
    ELSE "warning"

\* A tab as ArrTab.__init__ leaves it, with its two combo boxes holding
\* root_count and profile_count entries.
NewTab(root_count, profile_count) ==
    [terms_to_add_queue       |-> << >>,
     items_to_add_queue       |-> << >>,
     terms_to_add_total_count |-> 0,
     current_search_term      |-> 0,
     current_search_type      |-> "item",
     search_thread            |-> None,
     nextTerm                 |-> 1,
     root_count               |-> root_count,
     profile_count            |-> profile_count]

\* start_search_and_add(search_term, search_type) on the tab value s.
start_search_and_add_tab(s, search_term, search_type) ==
    LET v == _validate_inputs(s, search_term, s.root_count, s.profile_count)
        stored == [v.tab EXCEPT
                     !.current_search_type =
                         IF search_type # "" THEN search_type ELSE @,
                     !.terms_to_add_queue = << s.nextTerm >>,
                     !.terms_to_add_total_count = 1,
                     !.nextTerm = @ + 1]
    IN  IF search_term = "" \/ ~v.ok THEN s
        ELSE process_next_item_in_queue(stored).tab

\* _on_add_request that handles every request.
_on_add_request_slot_any(s, own_name, service, search_term, search_type) ==
    start_search_and_add_tab(s, search_term, search_type)

\* _on_add_request(service_name, search_term, search_type) of the tab named
\* own_name, on its tab value s.
_on_add_request_slot(s, own_name, service, search_term, search_type) ==
    IF Lower(service) = Lower(own_name)
    THEN start_search_and_add_tab(s, search_term, search_type)
    ELSE s

NoBusEv == [op |-> "", name |-> "", invoked |-> {}, log |-> "",
            service |-> "", search_term |-> ""]

\* Each tab has subscribed its _on_add_request to add_to_arr_requested.
BusInit ==
    /\ connections = [n \in EventNames |->
                        IF n = "add_to_arr_requested" THEN TabNames ELSE {}]
    /\ tabs = [t \in TabNames |-> NewTab(1, 1)]
    /\ bus_ev = NoBusEv

\* The variables of one tab's own queue machinery, which the bus leaves alone.
queue_vars ==
    << terms_to_add_queue, items_to_add_queue, terms_to_add_total_count,
       current_search_term, current_search_type, search_thread,
       combo_root_folder, combo_quality_profile, posted, threads, modal,
       nextTerm, adv, ev, last_submitted, call, status_thread, folders_thread,
       profiles_thread, buttons, cleaned_up >>

\* Another plugin subscribes a slot of its own to an event name.
subscribe_handler ==
    \E event_name \in EventNames :
      /\ connections' = subscribe(connections, event_name, "handler")
      /\ bus_ev' = [NoBusEv EXCEPT !.op = "subscribe", !.name = event_name,
                                   !.log = bus_log(event_name)]
      /\ UNCHANGED << tabs, queue_vars >>

\* publish("add_to_arr_requested", service, search_term, search_type): every
\* connected slot is called, the tabs' slots with the three arguments.
publish_add_request ==
    \E service \in RequestServices, search_term \in Texts,
       search_type \in RequestTypes :
      LET invoked == publish(connections, "add_to_arr_requested")
      IN  /\ \A t \in TabNames : tabs[t].nextTerm <= MaxTerms
          /\ tabs' = [t \in TabNames |->
                        IF t \in invoked
                        THEN _on_add_request_slot(tabs[t], t, service,
                                                  search_term, search_type)
                        ELSE tabs[t]]
          /\ bus_ev' = [op |-> "publish", name |-> "add_to_arr_requested",
                        invoked |-> invoked,
                        log |-> bus_log("add_to_arr_requested"),
                        service |-> service, search_term |-> search_term]
          /\ UNCHANGED << connections, queue_vars >>

\* publish(event_name, ...) of any other name.
publish_event ==
    \E event_name \in EventNames \ {"add_to_arr_requested"} :
      /\ bus_ev' = [NoBusEv EXCEPT !.op = "publish", !.name = event_name,
                                   !.invoked = publish(connections, event_name),
                                   !.log = bus_log(event_name)]
      /\ UNCHANGED << connections, tabs, queue_vars >>

\* The search of one tab has found nothing and its thread has finished: the
\* lambda connected to thread.finished resets the tab's search_thread.
tab_thread_finished ==
    \E t \in TabNames :
      /\ tabs[t].search_thread # None
      /\ tabs' = [tabs EXCEPT ![t].search_thread = None]
      /\ bus_ev' = NoBusEv
      /\ UNCHANGED << connections, queue_vars >>

\* ------------------------------------------------------------------ Init
\* ArrTab.__init__: empty queues and no thread; the combo boxes hold what the
\* refreshes have loaded by the time the behaviour starts.
TabStart(root_folders, quality_profiles) ==
    /\ terms_to_add_queue = << >>
    /\ items_to_add_queue = << >>
    /\ terms_to_add_total_count = 0
    /\ current_search_term = 0
    /\ current_search_type = "item"
    /\ search_thread = None
    /\ combo_root_folder = root_folders
    /\ combo_quality_profile = quality_profiles
    /\ posted = << >>
    /\ threads = {}
    /\ modal = NoModal
    /\ nextTerm = 1
    /\ adv = NoAdv
    /\ ev = NoEv
    /\ last_submitted = <<0, 0>>
    /\ status_thread = None
    /\ folders_thread = None
    /\ profiles_thread = None
    /\ buttons = [btn_check_status |-> TRUE, btn_refresh_folders |-> TRUE,
                  btn_refresh_profiles |-> TRUE]
    /\ cleaned_up = FALSE

\* Both combo boxes still empty.
TabInit == TabStart(<< >>, << >>)

Init ==
    /\ TabInit
    /\ BusInit
    /\ call = NoCall

\* A modal dialog blocks user input to the tab; only posted events go on.
Interactive == modal.dlg = "none"

\* The user can act on the tab: no dialog is open and the window is not closed.
UserInput == Interactive /\ ~cleaned_up

\* A handler that returned before touching the queues: at most it showed the
\* warning box `dialog`.
Rejected(name, dialog) ==
    /\ TabUnchanged
    /\ HistoryUnchanged
    /\ UNCHANGED << combo_root_folder, combo_quality_profile, posted, threads,
                    modal, nextTerm >>
    /\ adv' = NoAdv
    /\ ev' = IF dialog = "" THEN NoEv
             ELSE [NoEv EXCEPT !.name = name, !.dialog = dialog,
                               !.no_input = (dialog = "No Input")]

\* An enqueue that passed validation: s is the tab once the new terms are
\* stored, just before its process_next_item_in_queue() call.
Accepted(name, s, count) ==
    /\ Commit(name, s, process_next_item_in_queue(s))
    /\ nextTerm' = nextTerm + count
    /\ ev' = [NoEv EXCEPT !.name = name, !.accepted = TRUE,
                          !.discarded = Len(terms_to_add_queue)
                                        + Len(items_to_add_queue)]
    /\ UNCHANGED << combo_root_folder, combo_quality_profile, posted, modal >>

\* The fresh entries nextTerm .. nextTerm + count - 1, in order.
NewTerms(count) == [i \in 1..count |-> nextTerm + i - 1]

\* add_from_text(): the text box holds `text`.
add_from_text ==
    /\ UserInput
    /\ \E text \in Texts :
         LET search_term == Strip(text)
             v == _validate_inputs(Self, search_term, Len(combo_root_folder),
                                   Len(combo_quality_profile))
         IN  IF ~v.ok
             THEN Rejected("add_from_text", v.dialog)
             ELSE /\ nextTerm <= MaxTerms
                  /\ Accepted("add_from_text",
                              [v.tab EXCEPT !.terms_to_add_queue = NewTerms(1),
                                            !.terms_to_add_total_count = 1], 1)

\* import_from_csv(): the file dialog is cancelled, or the chosen file cannot
\* be read, or it holds `rows` usable rows.
import_from_csv ==
    /\ UserInput
    /\ \E file \in {"cancelled", "unreadable", "read"}, rows \in 0..MaxCsvRows :
         LET v == _validate_inputs(Self, "N/A", Len(combo_root_folder),
                                   Len(combo_quality_profile))
         IN  IF file = "cancelled"
             THEN Rejected("import_from_csv", "")
             ELSE IF ~v.ok
             THEN Rejected("import_from_csv", v.dialog)
             ELSE IF file = "unreadable" \/ rows = 0
             THEN \* validation has emptied the queues; nothing is stored
                  /\ terms_to_add_queue' = v.tab.terms_to_add_queue
                  /\ items_to_add_queue' = v.tab.items_to_add_queue
                  /\ UNCHANGED << terms_to_add_total_count, current_search_term,
                                  current_search_type, search_thread,
                                  combo_root_folder, combo_quality_profile,
                                  posted, threads, modal, nextTerm >>
                  /\ HistoryUnchanged
                                /\ adv' = NoAdv
                  /\ ev' = [NoEv EXCEPT
                              !.name = "import_from_csv",
                              !.dialog = IF file = "unreadable" THEN "CSV Error"
                                         ELSE "Empty CSV",
                              !.discarded = Len(terms_to_add_queue)
                                            + Len(items_to_add_queue)]
             ELSE /\ nextTerm + rows - 1 <= MaxTerms
                  /\ Accepted("import_from_csv",
                              [v.tab EXCEPT !.terms_to_add_queue = NewTerms(rows),
                                            !.terms_to_add_total_count = rows],
                              rows)

\* start_search_and_add(search_term, search_type)
start_search_and_add(search_term, search_type) ==
    LET v == _validate_inputs(Self, search_term, Len(combo_root_folder),
                              Len(combo_quality_profile))
    IN  IF search_term = ""
        THEN Rejected("start_search_and_add", "")
        ELSE IF ~v.ok
        THEN Rejected("start_search_and_add", v.dialog)
        ELSE /\ nextTerm <= MaxTerms
             /\ Accepted("start_search_and_add",
                         [v.tab EXCEPT
                            !.current_search_type =
                                IF search_type # "" THEN search_type ELSE @,
                            !.terms_to_add_queue = NewTerms(1),
                            !.terms_to_add_total_count = 1], 1)

\* _on_add_request(service_name, search_term, search_type): the slot of the
\* event bus's add_to_arr_requested signal, called synchronously by publish.
_on_add_request ==
    /\ UserInput
    /\ \E service \in RequestServices, search_term \in Texts,
          search_type \in RequestTypes :
         IF Lower(service) = Lower(service_name)
         THEN start_search_and_add(search_term, search_type)
         ELSE Rejected("_on_add_request", "")


\* ------------------------------------------ ApiWorker, QThread, event queue
PostedEvent(type, op, ok, result, error) ==
    [type |-> type, op |-> op, ok |-> ok, result |-> result, error |-> error]

\* _get_arr_base_url(): raises when the URL or the API key is not set.
_get_arr_base_url(configured) ==
    IF configured THEN [raised |-> FALSE, error |-> ""]
    ELSE [raised |-> TRUE, error |-> "cfg"]

\* What the remote service can answer to the lookup of `term`: a failure, or
\* 0..MaxResults candidates.
SearchResponses(term) ==
    {[raised |-> TRUE, error |-> "net", value |-> << >>]} \cup
    {[raised |-> FALSE, error |-> "",
      value |-> [i \in 1..n |-> <<term, i>>]] : n \in 0..MaxResults}

\* {"status": "success", "message": f"Status Code {status_code}"}, and the
\* bare {"status": "success"} as StatusSuccess(0): dicts that hold no record.
StatusSuccess(status_code) == <<0, status_code>>

\* ApiClient.api_request() once raise_for_status() has passed: what it returns
\* for a response with this status code and this body (<< >>: no content).
api_request(status_code, content) ==
    IF status_code \in {201, 204} THEN StatusSuccess(status_code)
    ELSE IF content = << >> THEN StatusSuccess(0)
    ELSE content[1]

\* Status codes of a successful creation request: 200 OK, 201 Created.
CreatedCodes == {200, 201}

\* What the service can answer to a creation request: a failure, or a
\* success with one of these codes whose body is the created record.
AddAnswers ==
    {[raised |-> TRUE, error |-> e, status_code |-> 0] : e \in {"net", "400exists"}}
    \cup {[raised |-> FALSE, error |-> "", status_code |-> code] :
              code \in CreatedCodes}

\* What api_request() then raises or returns for the created `record`.
AddResponse(answer, record) ==
    IF answer.raised
    THEN [raised |-> TRUE, error |-> answer.error, value |-> << >>]
    ELSE [raised |-> FALSE, error |-> "",
          value |-> <<api_request(answer.status_code, <<record>>)>>]

AddResponses(item_data) ==
    {AddResponse(answer, item_data.item_json) : answer \in AddAnswers}

\* _task_search_item / _task_add_item: the configuration is read first, then
\* the request is made; either may raise.
RunTask(configured, response) ==
    IF _get_arr_base_url(configured).raised
    THEN [raised |-> TRUE, error |-> "cfg", value |-> << >>]
    ELSE response

\* ApiWorker.run(): finished(result, "") when the task returns,
\* finished(None, str(e)) when it raises.
ApiWorker_finished(op, outcome) ==
    IF outcome.raised
    THEN PostedEvent("finished", op, FALSE, << >>, outcome.error)
    ELSE PostedEvent("finished", op, TRUE, outcome.value, "")

\* _task_get_status catches a failed request and returns {"status": "down"}
\* (<<0>>), else {"status": "up"} (<<1>>); _task_get_root_folders and
\* _task_get_quality_profiles return the list or let the failure through.
RefreshResponses(task) ==
    IF task = "status"
    THEN {[raised |-> FALSE, error |-> "", value |-> v] : v \in {<<0>>, <<1>>}}
    ELSE {[raised |-> TRUE, error |-> "net", value |-> << >>]} \cup
         {[raised |-> FALSE, error |-> "", value |-> v] :
             v \in (IF task = "folders" THEN FolderLists ELSE ProfileLists)}

\* _task_apply_identification, _task_get_status and _task_get_items of the
\* Jellyfin tab: the request fails, or it returns ({"Items": [...]} with no
\* item or with one, for the list).
JellyfinResponses(task) ==
    {[raised |-> TRUE, error |-> "net", value |-> << >>]} \cup
    {[raised |-> FALSE, error |-> "", value |-> <<n>>] :
        n \in (IF task = "list" THEN 0..1 ELSE {1})}

\* What the request of the operation's task can answer.
TaskResponses(op) ==
    IF op.task = "search" THEN SearchResponses(op.term)
    ELSE IF op.task = "add" THEN AddResponses(op.item_data)
    ELSE IF op.task \in {"apply", "ping", "list"} THEN JellyfinResponses(op.task)
    ELSE RefreshResponses(op.task)

\* closeEvent has called the plugin's cleanup and has not returned yet: the
\* GUI thread delivers nothing until the window is closed and the automatic
\* quit is posted.
QuitPosted == \E i \in 1..Len(posted) : posted[i].type = "app_quit"

InCloseEvent == cleaned_up /\ ~QuitPosted

NotMainStep ==
    /\ TabUnchanged
    /\ HistoryUnchanged
    /\ UNCHANGED << combo_root_folder, combo_quality_profile, modal, nextTerm >>
    /\ adv' = NoAdv
    /\ ev' = NoEv

\* The worker thread runs the task and emits worker.finished.  The signal is
\* connected, in this order, to the completion slot and to thread.quit; both
\* receivers live in the GUI thread, so both calls are posted to its queue.
ApiWorker_run ==
    \E th \in threads :
      /\ th.phase \in {"run", "quitting"}
      /\ \E configured \in BOOLEAN, response \in TaskResponses(th.op) :
           posted' = posted \o
               << ApiWorker_finished(th.op, RunTask(configured, response)),
                  PostedEvent("quit", th.op, TRUE, << >>, "") >>
      /\ threads' = (threads \ {th}) \cup
                        {[th EXCEPT !.phase = IF th.phase = "run" THEN "loop"
                                              ELSE "exit"]}
      /\ NotMainStep

\* The GUI thread delivers the posted thread.quit(): the thread's event loop
\* is told to exit.
thread_quit ==
    /\ ~InCloseEvent
    /\ posted # << >>
    /\ Head(posted).type = "quit"
    /\ posted' = Tail(posted)
    /\ threads' = {IF th.op = Head(posted).op /\ th.phase = "loop"
                   THEN [th EXCEPT !.phase = "exit"] ELSE th : th \in threads}
    /\ NotMainStep

\* The thread leaves its event loop and emits thread.finished, connected to
\* the lambdas that reset search_thread and search_worker to None; they are
\* posted to the GUI thread (the second one changes nothing that is read).
QThread_finished ==
    \E th \in threads :
      /\ th.phase = "exit"
      /\ threads' = threads \ {th}
      /\ posted' = Append(posted, PostedEvent("clear_thread", th.op, TRUE, << >>, ""))
      /\ NotMainStep

\* lambda: setattr(self, thread_attr, None)
clear_thread ==
    /\ ~InCloseEvent
    /\ posted # << >>
    /\ Head(posted).type = "clear_thread"
    /\ Head(posted).op.task \in {"search", "add"}
    /\ posted' = Tail(posted)
    /\ search_thread' = None
    /\ UNCHANGED << terms_to_add_queue, items_to_add_queue,
                    terms_to_add_total_count, current_search_term,
                    current_search_type, combo_root_folder,
                    combo_quality_profile, threads, modal, nextTerm >>
    /\ HistoryUnchanged
    /\ adv' = NoAdv
    /\ ev' = NoEv

\* ------------------------------------------------------ completion slots
\* A handler that ends in process_next_item_in_queue(), called on tab value s.
Advance(name, s, e) ==
    /\ Commit(name, s, process_next_item_in_queue(s))
    /\ ev' = e
    /\ UNCHANGED << combo_root_folder, combo_quality_profile, nextTerm >>

\* A handler that opens a modal dialog and waits in its event loop.
OpenDialog(dlg, result, error, e) ==
    /\ modal' = [dlg |-> dlg, result |-> result, error |-> error]
    /\ ev' = e
    /\ adv' = NoAdv
    /\ TabUnchanged
    /\ HistoryUnchanged
    /\ UNCHANGED << combo_root_folder, combo_quality_profile, threads, nextTerm >>

SlotEvent(name, e) ==
    [NoEv EXCEPT !.name = name, !.error = e.error, !.results = Len(e.result)]

\* on_search_finished(result, error), up to the dialog it may open.
on_search_finished ==
    /\ Interactive
    /\ ~InCloseEvent
    /\ posted # << >>
    /\ Head(posted).type = "finished"
    /\ Head(posted).op.task = "search"
    /\ posted' = Tail(posted)
    /\ LET e == Head(posted)
           here == SlotEvent("on_search_finished", e)
           branch == on_search_finished_branch(e.ok, e.error, e.result)
       IN  IF branch = "error"
           THEN /\ OpenDialog("Search Error", << >>, e.error,
                              [here EXCEPT !.dialog = "Search Error"])
           ELSE IF branch = "skip"
           THEN /\ Advance("on_search_finished", Self, here)
                /\ UNCHANGED modal
           ELSE IF branch = "auto"
           THEN /\ Advance("on_search_finished",
                           on_item_selected(Self, e.result[1],
                                            currentData(combo_root_folder),
                                            currentData(combo_quality_profile)),
                           [here EXCEPT !.selected = 1])
                /\ UNCHANGED modal
           ELSE /\ OpenDialog("SelectionDialog", e.result, "",
                              [here EXCEPT !.dialog = "SelectionDialog"])

\* The event a handler reports once its dialog is closed.
AfterDialog(name) ==
    [NoEv EXCEPT !.name = name, !.dialog = modal.dlg, !.error = modal.error,
                 !.results = Len(modal.result)]

\* The "Search Error" box is dismissed: on_search_finished goes on.
close_search_error ==
    /\ modal.dlg = "Search Error"
    /\ modal' = NoModal
    /\ Advance("on_search_finished", Self, AfterDialog("on_search_finished"))
    /\ UNCHANGED posted

\* The rows a user can have selected when the chooser is accepted: a non-empty
\* set of rows, returned in ascending row order.
Ascending(rows) ==
    CHOOSE seq \in [1..Cardinality(rows) -> rows] :
        \A i, j \in 1..Cardinality(rows) : i < j => seq[i] < seq[j]

Selections(result) ==
    {[i \in 1..Cardinality(rows) |-> result[Ascending(rows)[i]]] :
        rows \in (SUBSET (1..Len(result))) \ {{}}}

\* SelectionDialog.exec() returns: accepted with selected_items, or skipped.
\* Once the window is closed only the pending quit ends the dialog's loop.
close_selection_dialog ==
    /\ modal.dlg = "SelectionDialog"
    /\ modal' = NoModal
    /\ \E accepted \in (IF cleaned_up THEN {FALSE} ELSE BOOLEAN),
          selected_items \in Selections(modal.result) :
         Advance("on_search_finished",
                 IF accepted
                 THEN SelectAll(Self, selected_items,
                                currentData(combo_root_folder),
                                currentData(combo_quality_profile))
                 ELSE Self,
                 [AfterDialog("on_search_finished") EXCEPT
                     !.accepted = accepted,
                     !.selected = IF accepted THEN Len(selected_items) ELSE 0])
    /\ UNCHANGED posted

\* on_add_finished(result, error), up to the dialog it may open.
on_add_finished ==
    /\ Interactive
    /\ ~InCloseEvent
    /\ posted # << >>
    /\ Head(posted).type = "finished"
    /\ Head(posted).op.task = "add"
    /\ posted' = Tail(posted)
    /\ LET e == Head(posted)
           here == SlotEvent("on_add_finished", e)
       IN  IF e.error # "" \/ ~e.ok
           THEN IF Has400(e.error) /\ HasAlreadyOrExist(e.error)
                THEN /\ Advance("on_add_finished", Self, here)
                     /\ UNCHANGED modal
                ELSE /\ OpenDialog("Add Error", << >>, e.error,
                                   [here EXCEPT !.dialog = "Add Error"])
                ELSE /\ Advance("on_add_finished", Self,
                           [here EXCEPT !.published = TRUE,
                                        !.record = e.result[1]])
                /\ UNCHANGED modal

\* The "Add Error" box is dismissed: on_add_finished goes on.
close_add_error ==
    /\ modal.dlg = "Add Error"
    /\ modal' = NoModal
    /\ Advance("on_add_finished", Self, AfterDialog("on_add_finished"))
    /\ UNCHANGED posted

\* on_root_folders_finished(result, error): a root-folder refresh completed.
\* (Its worker uses folders_thread, not search_thread.)
on_root_folders_finished ==
    /\ \E error \in BOOLEAN, result \in FolderLists :
         combo_root_folder' = IF error THEN combo_root_folder ELSE result
    /\ TabUnchanged
    /\ HistoryUnchanged
    /\ UNCHANGED << combo_quality_profile, posted, threads, modal, nextTerm >>
    /\ adv' = NoAdv
    /\ ev' = NoEv

\* on_quality_profiles_finished(result, error)
on_quality_profiles_finished ==
    /\ \E error \in BOOLEAN, result \in ProfileLists :
         combo_quality_profile' = IF error THEN combo_quality_profile ELSE result
    /\ TabUnchanged
    /\ HistoryUnchanged
    /\ UNCHANGED << combo_root_folder, posted, threads, modal, nextTerm >>
    /\ adv' = NoAdv
    /\ ev' = NoEv

\* ------------------------------------------- status and refresh workers
\* What the status and refresh handlers never touch.
RefreshFrame ==
    /\ TabUnchanged
    /\ UNCHANGED << modal, nextTerm, last_submitted, call, cleaned_up,
                    connections, tabs, bus_ev >>
    /\ adv' = NoAdv
    /\ ev' = NoEv

\* _start_worker(thread_attr, ...) on the attribute whose value is `thread`.
Started(thread, task) ==
    _start_worker([search_thread |-> thread], RefreshOp(task))

\* The QThreads those calls started.
NewThreads(starts) ==
    {[op |-> r.started, phase |-> "run"] : r \in {x \in starts : x.started # None}}

\* check_status(): from its button, or from the start-up timer and
\* request_all_status, which do not ask whether the button is enabled.
check_status ==
    /\ UserInput
    /\ \E clicked \in BOOLEAN : clicked => buttons.btn_check_status
    /\ buttons' = [buttons EXCEPT !.btn_check_status = FALSE]
    /\ LET r == Started(status_thread, "status")
       IN  /\ status_thread' = r.tab.search_thread
           /\ threads' = threads \cup NewThreads({r})
    /\ UNCHANGED << folders_thread, profiles_thread, combo_root_folder,
                    combo_quality_profile, posted >>
    /\ RefreshFrame

\* refresh_root_folders(), from its button.
refresh_root_folders ==
    /\ UserInput
    /\ buttons.btn_refresh_folders
    /\ buttons' = [buttons EXCEPT !.btn_refresh_folders = FALSE]
    /\ LET r == Started(folders_thread, "folders")
       IN  /\ folders_thread' = r.tab.search_thread
           /\ threads' = threads \cup NewThreads({r})
    /\ UNCHANGED << status_thread, profiles_thread, combo_root_folder,
                    combo_quality_profile, posted >>
    /\ RefreshFrame

\* refresh_quality_profiles(), from its button.
refresh_quality_profiles ==
    /\ UserInput
    /\ buttons.btn_refresh_profiles
    /\ buttons' = [buttons EXCEPT !.btn_refresh_profiles = FALSE]
    /\ LET r == Started(profiles_thread, "profiles")
       IN  /\ profiles_thread' = r.tab.search_thread
           /\ threads' = threads \cup NewThreads({r})
    /\ UNCHANGED << status_thread, folders_thread, combo_root_folder,
                    combo_quality_profile, posted >>
    /\ RefreshFrame

\* The posted worker.finished of the task is next in the GUI thread's queue.
Delivered(task) ==
    /\ ~InCloseEvent
    /\ posted # << >>
    /\ Head(posted).type = "finished"
    /\ Head(posted).op.task = task
    /\ posted' = Tail(posted)

\* on_status_finished(result, error): when the service is up it calls
\* refresh_root_folders() and refresh_quality_profiles(), one after the other.
on_status_finished ==
    /\ Delivered("status")
    /\ LET e == Head(posted)
           rf == Started(folders_thread, "folders")
           rp == Started(profiles_thread, "profiles")
       IN  IF e.ok /\ e.error = "" /\ e.result = <<1>>
           THEN /\ folders_thread' = rf.tab.search_thread
                /\ profiles_thread' = rp.tab.search_thread
                /\ threads' = threads \cup NewThreads({rf, rp})
                /\ buttons' = [btn_check_status |-> TRUE,
                               btn_refresh_folders |-> FALSE,
                               btn_refresh_profiles |-> FALSE]
           ELSE /\ UNCHANGED << folders_thread, profiles_thread, threads >>
                /\ buttons' = [buttons EXCEPT !.btn_check_status = TRUE]
    /\ UNCHANGED << status_thread, combo_root_folder, combo_quality_profile >>
    /\ RefreshFrame

\* on_root_folders_finished(result, error), delivered from the worker.
root_folders_delivered ==
    /\ Delivered("folders")
    /\ buttons' = [buttons EXCEPT !.btn_refresh_folders = TRUE]
    /\ combo_root_folder' = IF Head(posted).ok THEN Head(posted).result
                            ELSE combo_root_folder
    /\ UNCHANGED << status_thread, folders_thread, profiles_thread, threads,
                    combo_quality_profile >>
    /\ RefreshFrame

\* on_quality_profiles_finished(result, error), delivered from the worker.
quality_profiles_delivered ==
    /\ Delivered("profiles")
    /\ buttons' = [buttons EXCEPT !.btn_refresh_profiles = TRUE]
    /\ combo_quality_profile' = IF Head(posted).ok THEN Head(posted).result
                                ELSE combo_quality_profile
    /\ UNCHANGED << status_thread, folders_thread, profiles_thread, threads,
                    combo_root_folder >>
    /\ RefreshFrame

\* lambda: setattr(self, thread_attr, None) of a status or refresh thread.
clear_refresh_thread ==
    /\ ~InCloseEvent
    /\ posted # << >>
    /\ Head(posted).type = "clear_thread"
    /\ Head(posted).op.task \in {"status", "folders", "profiles"}
    /\ posted' = Tail(posted)
    /\ LET task == Head(posted).op.task
       IN  /\ status_thread' = IF task = "status" THEN None ELSE status_thread
           /\ folders_thread' = IF task = "folders" THEN None ELSE folders_thread
           /\ profiles_thread' = IF task = "profiles" THEN None
                                 ELSE profiles_thread
    /\ UNCHANGED << threads, combo_root_folder, combo_quality_profile,
                    buttons >>
    /\ RefreshFrame

\* ----------------------------------------------------------- tear-down
\* MainWindow.closeEvent -> registry.cleanup_all() -> plugin.cleanup(): quit()
\* on each of the tab's threads.  A thread idle in its event loop leaves it; a
\* thread still inside worker.run() leaves once run() has returned.  No
\* worker's stop() is called.
cleanup ==
    /\ UserInput
    /\ cleaned_up' = TRUE
    /\ threads' = {[th EXCEPT !.phase = IF @ = "run" THEN "quitting"
                                        ELSE IF @ = "loop" THEN "exit" ELSE @] :
                      th \in threads}
    /\ TabUnchanged
    /\ UNCHANGED << combo_root_folder, combo_quality_profile, posted, modal,
                    nextTerm, last_submitted, call, status_thread,
                    folders_thread, profiles_thread, buttons, connections,
                    tabs, bus_ev >>
    /\ adv' = NoAdv
    /\ ev' = NoEv

\* closeEvent returns and the window closes: the application posts its quit
\* behind what is already posted; nothing posted later is delivered.
quit_posted ==
    /\ InCloseEvent
    /\ posted' = Append(posted, PostedEvent("app_quit", None, TRUE, << >>, ""))
    /\ UNCHANGED threads
    /\ NotMainStep

\* ------------------------------------------------- worker tasks, in full
\* The tasks an ApiWorker runs, with the requests they issue.  A request is
\* <<"search", 0>> (the indexer search), a lookup id such as <<"tmdb", 1>>
\* (a cross-reference lookup), <<"term", 0>> (the direct lookup of the raw
\* term) or <<"POST", 0>> (the creation request).
Services == {"radarr", "sonarr", "readarr"}

\* An outcome of a call: what it returned or raised, and the requests issued.
Returned(value, requests) ==
    [raised |-> FALSE, error |-> "", value |-> value, requests |-> requests]

Raised(error, requests) ==
    [raised |-> TRUE, error |-> error, value |-> << >>, requests |-> requests]

\* An indexer result, by the ids it carries (0: the key is absent or empty).
ProwlarrItems == [tvdbId : 0..1, tmdbId : 0..1, imdbId : 0..1]

RECURSIVE SeqsUpTo(_, _)
SeqsUpTo(S, n) ==
    IF n = 0 THEN {<< >>}
    ELSE LET shorter == SeqsUpTo(S, n - 1)
         IN  shorter \cup {Append(q, x) : q \in shorter, x \in S}

\* What the indexer can answer to a search: a failure, or a list of results.
ProwlarrResponses ==
    {[raised |-> TRUE, error |-> "net", value |-> << >>]} \cup
    {[raised |-> FALSE, error |-> "", value |-> v] :
        v \in SeqsUpTo(ProwlarrItems, MaxProwlarr)}

NoLookup == <<"", 0>>

LookupIds == {<<"tvdb", 1>>, <<"tmdb", 1>>, <<"imdb", 1>>}

\* What the service answers to each cross-reference lookup: a failure, an
\* empty list, or a list whose first entry is the record of that id.
LookupAnswers == [LookupIds -> {"raise", "empty", "hit"}]

\* prowlarr_results[:10]
ProwlarrLimit == 10

\* prowlarr_results with no limit.
SubSeqTo_all(seq, n) == seq

SubSeqTo(seq, n) == [i \in 1..(IF Len(seq) < n THEN Len(seq) ELSE n) |-> seq[i]]

\* _task_prowlarr_search(query): raises unless Prowlarr is enabled and
\* configured, else issues the indexer search.
_task_prowlarr_search(enabled, response) ==
    IF ~enabled THEN Raised("prowlarr", << >>)
    ELSE IF response.raised THEN Raised(response.error, << <<"search", 0>> >>)
    ELSE Returned(response.value, << <<"search", 0>> >>)

\* The lookup id _task_prowlarr_to_arr_lookup derives from one indexer result.
lookup_id(service, item) ==
    IF service = "sonarr" /\ item.tvdbId # 0 THEN <<"tvdb", item.tvdbId>>
    ELSE IF service = "radarr"
    THEN IF item.tmdbId # 0 THEN <<"tmdb", item.tmdbId>>
         ELSE IF item.imdbId # 0 THEN <<"imdb", item.imdbId>>
         ELSE NoLookup
    ELSE NoLookup

\* The loop of _task_prowlarr_to_arr_lookup over the results left, with the
\* candidates, the ids seen and the requests issued so far.
RECURSIVE lookup_loop(_, _, _, _, _, _)
lookup_loop(service, items, answers, arr_results, seen_ids, requests) ==
    IF items = << >> THEN Returned(arr_results, requests)
    ELSE LET id == lookup_id(service, Head(items))
         IN  IF id = NoLookup \/ id \in seen_ids
             THEN lookup_loop(service, Tail(items), answers, arr_results,
                              seen_ids, requests)
             ELSE lookup_loop(service, Tail(items), answers,
                              IF answers[id] = "hit"
                              THEN Append(arr_results, id) ELSE arr_results,
                              seen_ids \cup {id}, Append(requests, id))

\* _task_prowlarr_to_arr_lookup(prowlarr_results)
_task_prowlarr_to_arr_lookup(service, configured, prowlarr_results, answers) ==
    IF _get_arr_base_url(configured).raised
    THEN Raised(_get_arr_base_url(configured).error, << >>)
    ELSE lookup_loop(service, SubSeqTo(prowlarr_results, ProwlarrLimit),
                     answers, << >>, {}, << >>)

\* The try block of _task_search_item: the candidates it returns with, or
\* << >> when it falls through, or what it raised.
prowlarr_path(service, enabled, prowlarr, configured, answers) ==
    LET prowlarr_results == _task_prowlarr_search(enabled, prowlarr)
        arr_results ==
            _task_prowlarr_to_arr_lookup(service, configured,
                                         prowlarr_results.value, answers)
    IN  IF prowlarr_results.raised THEN prowlarr_results
        ELSE IF prowlarr_results.value = << >> THEN prowlarr_results
        ELSE IF arr_results.raised
        THEN Raised(arr_results.error, prowlarr_results.requests)
        ELSE Returned(arr_results.value,
                      prowlarr_results.requests \o arr_results.requests)

\* The standard lookup of _task_search_item, issued after `requests`.
standard_lookup(configured, response, requests) ==
    IF _get_arr_base_url(configured).raised
    THEN Raised(_get_arr_base_url(configured).error, requests)
    ELSE IF response.raised
    THEN Raised(response.error, Append(requests, <<"term", 0>>))
    ELSE Returned(response.value, Append(requests, <<"term", 0>>))

\* _task_search_item without its try/except around the Prowlarr path.
_task_search_item_no_except(service, enabled, prowlarr, configured, answers, response) ==
    LET first == prowlarr_path(service, enabled, prowlarr, configured, answers)
    IN  IF service \notin {"sonarr", "radarr"}
        THEN standard_lookup(configured, response, << >>)
        ELSE IF first.raised THEN first
        ELSE IF first.value # << >> THEN first
        ELSE standard_lookup(configured, response, first.requests)

\* _task_search_item that makes the standard lookup in every case.
_task_search_item_always_direct(service, enabled, prowlarr, configured, answers, response) ==
    LET first == prowlarr_path(service, enabled, prowlarr, configured, answers)
    IN  standard_lookup(configured, response,
                        IF service \in {"sonarr", "radarr"}
                        THEN first.requests ELSE << >>)

\* _task_search_item(term, search_type) of ArrTab
_task_search_item(service, enabled, prowlarr, configured, answers, response) ==
    LET first == prowlarr_path(service, enabled, prowlarr, configured, answers)
    IN  IF service \notin {"sonarr", "radarr"}
        THEN standard_lookup(configured, response, << >>)
        ELSE IF ~first.raised /\ first.value # << >> THEN first
        ELSE standard_lookup(configured, response, first.requests)

\* dict.get(key): None (0) when the key is absent.
Get(dict, key) == IF key \in DOMAIN dict THEN dict[key] ELSE 0

\* Every lookup result with keys among `keys` (values in 1..2) next to a key
\* that no payload reads.
Dicts(keys) ==
    UNION {{[k \in present \cup {"overview"} |->
                IF k = "overview" THEN 1 ELSE values[k]] :
              values \in [present -> 1..2]} : present \in SUBSET keys}

\* The keys _build_add_payload reads from a movie candidate, from an artist.
MovieKeys == {"tmdbId", "title", "titleSlug", "images", "year"}
ArtistKeys == {"foreignArtistId", "artistName", "images"}

\* The PendingAddItems on_item_selected can build for a tab of `service`.
ItemDatas(service) ==
    [item_json : Dicts(IF service = "lidarr" THEN ArtistKeys ELSE MovieKeys),
     root_folder_id : 1..2, root_folder_path : 1..2,
     quality_profile_id : 1..2,
     search_type : IF service = "lidarr" THEN {"artist", "album"} ELSE {"item"}]

\* The default payload with year, titleSlug and images always present.
_build_add_payload_all_keys(item_json, item_data) ==
    [k \in {"tmdbId", "title", "qualityProfileId", "rootFolderPath",
            "monitored", "addOptions", "titleSlug", "images", "year"} |->
        CASE k = "qualityProfileId" -> item_data.quality_profile_id
          [] k = "rootFolderPath" -> item_data.root_folder_path
          [] k = "monitored" -> TRUE
          [] k = "addOptions" -> [searchForMovie |-> TRUE]
          [] OTHER -> Get(item_json, k)]

\* _build_add_payload(item_json, item_data) of ArrTab and of RadarrTab: a
\* dict, as a function of its keys.
_build_add_payload(item_json, item_data) ==
    [k \in {"tmdbId", "title", "qualityProfileId", "rootFolderPath",
            "monitored", "addOptions"}
           \cup ({"titleSlug", "images", "year"} \cap DOMAIN item_json) |->
        CASE k = "tmdbId" -> Get(item_json, "tmdbId")
          [] k = "title" -> Get(item_json, "title")
          [] k = "qualityProfileId" -> item_data.quality_profile_id
          [] k = "rootFolderPath" -> item_data.root_folder_path
          [] k = "monitored" -> TRUE
          [] k = "addOptions" -> [searchForMovie |-> TRUE]
          [] OTHER -> item_json[k]]

\* What building a payload gives: the payload, or the error raised.
Built(payload) == [raised |-> FALSE, error |-> "", value |-> payload]

Unsupported == [raised |-> TRUE, error |-> "unsupported", value |-> << >>]

\* LidarrTab._build_add_payload without its refusal of albums.
LidarrTab_build_add_payload_albums_too(item_json, item_data) ==
    Built([k \in {"foreignArtistId", "artistName", "qualityProfileId",
                  "rootFolderPath"} |->
              CASE k = "qualityProfileId" -> item_data.quality_profile_id
                [] k = "rootFolderPath" -> item_data.root_folder_path
                [] OTHER -> Get(item_json, k)])

\* LidarrTab._build_add_payload(item_json, item_data): raises ValueError for
\* an album.
LidarrTab_build_add_payload(item_json, item_data) ==
    IF item_data.search_type = "album" THEN Unsupported
    ELSE Built([k \in {"foreignArtistId", "artistName", "qualityProfileId",
                       "metadataProfileId", "rootFolderPath", "monitored",
                       "addOptions"} \cup ({"images"} \cap DOMAIN item_json) |->
                   CASE k = "foreignArtistId" -> Get(item_json, "foreignArtistId")
                     [] k = "artistName" -> Get(item_json, "artistName")
                     [] k = "qualityProfileId" -> item_data.quality_profile_id
                     [] k = "metadataProfileId" -> 1
                     [] k = "rootFolderPath" -> item_data.root_folder_path
                     [] k = "monitored" -> TRUE
                     [] k = "addOptions" ->
                            [searchForMissingAlbums |-> TRUE, monitor |-> "all"]
                     [] OTHER -> item_json[k]])

\* self._build_add_payload(item_json, item_data), by the tab's class.
build_payload(service, item_json, item_data) ==
    IF service = "lidarr" THEN LidarrTab_build_add_payload(item_json, item_data)
    ELSE Built(_build_add_payload(item_json, item_data))

\* _task_add_item(item_data): the configuration is read, the payload is
\* built, and only then the creation request is issued.
_task_add_item(service, configured, item_data, answer) ==
    LET payload == build_payload(service, item_data.item_json, item_data)
        response == AddResponse(answer, item_data.item_json)
    IN  IF _get_arr_base_url(configured).raised
        THEN Raised(_get_arr_base_url(configured).error, << >>)
        ELSE IF payload.raised THEN Raised(payload.error, << >>)
        ELSE IF response.raised
        THEN Raised(response.error, << <<"POST", 0>> >>)
        ELSE Returned(response.value, << <<"POST", 0>> >>)

\* The main variables, which a task run on its own leaves alone.
tab_vars == << terms_to_add_queue, items_to_add_queue, terms_to_add_total_count,
               current_search_term, current_search_type, search_thread,
               combo_root_folder, combo_quality_profile, posted, threads,
               modal, nextTerm, adv, ev, last_submitted, env_vars >>

\* The calls of _task_search_item (for term 1) still to be made.
SearchCalls ==
    [name : {"_task_search_item"}, done : {FALSE}, service : Services,
     enabled : BOOLEAN, prowlarr : ProwlarrResponses, configured : BOOLEAN,
     answers : LookupAnswers, response : SearchResponses(1)]

\* A task has run: its outcome is recorded next to its input.
Done(out) ==
    /\ call' = [i \in DOMAIN call \cup {"out"} |->
                  IF i = "out" THEN out ELSE IF i = "done" THEN TRUE ELSE call[i]]
    /\ UNCHANGED tab_vars

\* The calls of _task_add_item still to be made, on a Radarr and a Lidarr tab.
AddCalls ==
    UNION {{[name |-> "_task_add_item", done |-> FALSE, service |-> service,
             configured |-> configured, item_data |-> item_data,
             answer |-> answer] :
               configured \in BOOLEAN, answer \in AddAnswers,
               item_data \in ItemDatas(service)} :
           service \in {"radarr", "lidarr"}}

\* The calls of RadarrTab._build_add_payload still to be made.
PayloadCalls ==
    [name : {"_build_add_payload"}, done : {FALSE},
     item_data : ItemDatas("radarr")]

run_task_search_item ==
    /\ call.name = "_task_search_item"
    /\ ~call.done
    /\ Done(_task_search_item(call.service, call.enabled, call.prowlarr,
                              call.configured, call.answers, call.response))

run_task_add_item ==
    /\ call.name = "_task_add_item"
    /\ ~call.done
    /\ Done(_task_add_item(call.service, call.configured, call.item_data,
                           call.answer))

run_build_add_payload ==
    /\ call.name = "_build_add_payload"
    /\ ~call.done
    /\ Done(_build_add_payload(call.item_data.item_json, call.item_data))

\* An indexer result that carries no provider id.
PadItem == [tvdbId |-> 0, tmdbId |-> 0, imdbId |-> 0]

Pad(n) == [i \in 1..n |-> PadItem]

\* Indexer result lists around the limit of prowlarr_results[:10]: up to
\* MaxProwlarr results behind none, nine or ten results without an id.
LongProwlarrResults ==
    {Pad(n) \o tail : n \in {0, ProwlarrLimit - 1, ProwlarrLimit},
                      tail \in SeqsUpTo(ProwlarrItems, MaxProwlarr)}

\* The calls of _task_prowlarr_to_arr_lookup still to be made.
LookupCalls ==
    [name : {"_task_prowlarr_to_arr_lookup"}, done : {FALSE},
     service : {"radarr", "sonarr"}, configured : BOOLEAN,
     prowlarr_results : LongProwlarrResults, answers : LookupAnswers]

run_task_prowlarr_to_arr_lookup ==
    /\ call.name = "_task_prowlarr_to_arr_lookup"
    /\ ~call.done
    /\ Done(_task_prowlarr_to_arr_lookup(call.service, call.configured,
                                         call.prowlarr_results, call.answers))

\* What a task callable given to an ApiWorker can do: return a list or raise
\* (with a message that may be empty).
TaskOutcomes ==
    {RunTask(configured, response) :
        configured \in BOOLEAN, response \in SearchResponses(1)}
    \cup {[raised |-> TRUE, error |-> "", value |-> << >>]}

\* ApiWorker.run() emitting finished whatever is_running is.
run_emits_unchecked(is_running, outcome) == << ApiWorker_finished(None, outcome) >>

\* The finished signals run() emits once the task has returned or raised:
\* one if is_running is still set, none otherwise.
run_emits(is_running, outcome) ==
    IF is_running THEN << ApiWorker_finished(None, outcome) >> ELSE << >>

\* The runs of an ApiWorker still to be made: pc is where run() stands
\* ("start", "task" once the task has returned or raised, "end"), stopped is
\* where it stood when stop() was called.
WorkerRuns ==
    [name : {"ApiWorker.run"}, done : {FALSE}, pc : {"start"},
     is_running : {TRUE}, stopped : {""}, task : TaskOutcomes,
     emitted : {<< >>}]

\* ApiWorker.stop(), called from the GUI thread at any moment of the run.
ApiWorker_stop ==
    /\ call.name = "ApiWorker.run"
    /\ call.is_running
    /\ call' = [call EXCEPT !.is_running = FALSE, !.stopped = call.pc]
    /\ UNCHANGED tab_vars

\* run(), line 162: the task callable returns or raises.
ApiWorker_run_task ==
    /\ call.name = "ApiWorker.run"
    /\ call.pc = "start"
    /\ call' = [call EXCEPT !.pc = "task"]
    /\ UNCHANGED tab_vars

\* run(), lines 163-164 or 167-168: is_running is read, finished is emitted.
ApiWorker_run_emit ==
    /\ call.name = "ApiWorker.run"
    /\ call.pc = "task"
    /\ call' = [call EXCEPT !.pc = "end", !.done = TRUE,
                            !.emitted = run_emits(call.is_running, call.task)]
    /\ UNCHANGED tab_vars

\* ------------------------------------------------------- specifications
Next ==
    \/ add_from_text
    \/ import_from_csv
    \/ _on_add_request
    \/ ApiWorker_run
    \/ thread_quit
    \/ QThread_finished
    \/ clear_thread
    \/ on_search_finished
    \/ close_search_error
    \/ close_selection_dialog
    \/ on_add_finished
    \/ close_add_error
    \/ on_root_folders_finished
    \/ on_quality_profiles_finished

Spec == Init /\ [][Next]_vars

\* Every started task returns or raises, Qt delivers every posted event, a
\* thread told to quit finishes, and every dialog is eventually answered.
\* Nothing obliges the user to submit more terms or to refresh.
Progress ==
    \/ ApiWorker_run
    \/ thread_quit
    \/ QThread_finished
    \/ clear_thread
    \/ on_search_finished
    \/ close_search_error
    \/ close_selection_dialog
    \/ on_add_finished
    \/ close_add_error

FairSpec == Spec /\ WF_vars(Progress)

\* The worker tasks run on their own, on every input within the bounds.
TaskNext ==
    \/ run_task_search_item
    \/ run_task_add_item
    \/ run_build_add_payload
    \/ run_task_prowlarr_to_arr_lookup
    \/ ApiWorker_stop
    \/ ApiWorker_run_task
    \/ ApiWorker_run_emit

TaskInit ==
    /\ TabInit
    /\ BusInit
    /\ call \in SearchCalls \cup AddCalls \cup PayloadCalls \cup LookupCalls
                \cup WorkerRuns

TaskSpec == TaskInit /\ [][TaskNext]_vars

\* The status and refresh workers of one tab.
WorkersNext ==
    \/ check_status
    \/ refresh_root_folders
    \/ refresh_quality_profiles
    \/ on_status_finished
    \/ root_folders_delivered
    \/ quality_profiles_delivered
    \/ clear_refresh_thread
    \/ ApiWorker_run
    \/ thread_quit
    \/ QThread_finished

WorkersSpec == Init /\ [][WorkersNext]_vars

\* The search/add pipeline of a tab whose combo boxes are loaded, up to the
\* closing of the main window.
TeardownNext ==
    \/ add_from_text
    \/ ApiWorker_run
    \/ thread_quit
    \/ QThread_finished
    \/ clear_thread
    \/ on_search_finished
    \/ close_search_error
    \/ close_selection_dialog
    \/ on_add_finished
    \/ close_add_error
    \/ cleanup
    \/ quit_posted

TeardownInit ==
    /\ \E root_folders \in FolderLists \ {<< >>},
          quality_profiles \in ProfileLists \ {<< >>} :
         TabStart(root_folders, quality_profiles)
    /\ BusInit
    /\ call = NoCall

TeardownSpec == TeardownInit /\ [][TeardownNext]_vars

\* The event bus with two tabs on it, whose combo boxes are loaded or not.
BusNext ==
    \/ subscribe_handler
    \/ publish_add_request
    \/ publish_event
    \/ tab_thread_finished

BusStart ==
    /\ TabInit
    /\ call = NoCall
    /\ connections = [n \in EventNames |->
                        IF n = "add_to_arr_requested" THEN TabNames ELSE {}]
    /\ tabs \in [TabNames -> {NewTab(r, q) : r \in 0..1, q \in 0..1}]
    /\ bus_ev = NoBusEv

BusSpec == BusStart /\ [][BusNext]_vars


\* ---------------------------------------------------------------- claims
Range(seq) == {seq[i] : i \in DOMAIN seq}

IsPrefix(a, b) == Len(a) <= Len(b) /\ \A i \in 1..Len(a) : a[i] = b[i]

\* Candidates are numbered <<term, row>>; Before is their submission order.
Before(a, b) == a[1] < b[1] \/ (a[1] = b[1] /\ a[2] < b[2])

CompletionSlots == {"on_search_finished", "on_add_finished"}

EnqueueHandlers == {"add_from_text", "import_from_csv", "start_search_and_add"}

ValidationWarnings == {"No Input", "No Root Folder", "No Quality Profile"}

ErrorDialogs == {"Search Error", "Add Error"}

\* The last step called process_next_item_in_queue() with an entry pending.
AdvancedWithPending ==
    adv.caller # "" /\ (adv.items # << >> \/ adv.terms # << >>)

\* The last step was an enqueue that stored its terms.
EnqueueAccepted == ev.name \in EnqueueHandlers /\ ev.accepted

\* The last step passed _validate_inputs (and so emptied both queues).
Validated == EnqueueAccepted \/ ev.dialog \in {"Empty CSV", "CSV Error"}

\* C1: at most one search-or-add worker is outstanding, and a
\* process_next_item_in_queue() call made while one is outstanding starts
\* nothing and leaves both queues as they were.
C1_SingleFlight ==
    /\ Cardinality(threads) <= 1
    /\ threads # {} => search_thread # None
    /\ (adv.caller # "" /\ adv.busy) =>
          /\ adv.started = None
          /\ terms_to_add_queue = adv.terms
          /\ items_to_add_queue = adv.items

\* An enqueue called advance while a worker was running and a term was pending.
C1_Witness ==
    /\ adv.caller \in EnqueueHandlers
    /\ adv.busy
    /\ adv.terms # << >>
    /\ \E th \in threads : th.phase = "run"

\* C2: the process_next_item_in_queue() call made by a completion slot finds
\* search_thread already None, so with an entry pending it starts an operation.
C2_AdvanceAfterCompletion ==
    adv.caller \in CompletionSlots =>
        /\ ~adv.busy
        /\ AdvancedWithPending => adv.started # None

\* The terminal condition of a batch: nothing pending, nothing outstanding,
\* and the counter flushed to 0 by the "batch complete" branch.
Terminal ==
    /\ terms_to_add_queue = << >>
    /\ items_to_add_queue = << >>
    /\ search_thread = None
    /\ threads = {}
    /\ terms_to_add_total_count = 0

\* C3: under FairSpec (workers finish, choosers are answered), every accepted
\* batch eventually reaches the terminal condition, unless a further enqueue
\* is accepted first.
C3_BatchReachesTerminal ==
    (terms_to_add_total_count > 0) ~> (Terminal \/ EnqueueAccepted)

\* C4: an operation started while the add-items queue is non-empty is the
\* submission of its head item; a search is started only when that queue is
\* empty.
C4_AddsBeforeSearches ==
    /\ (adv.started # None /\ adv.items # << >>) =>
          adv.started = AddOp(Head(adv.items))
    /\ adv.started.task = "search" =>
          /\ adv.items = << >>
          /\ adv.terms # << >>
          /\ adv.started.term = Head(adv.terms)

\* An add was started while search terms were pending too.
C4_Witness ==
    /\ adv.started.task = "add"
    /\ adv.terms # << >>

SearchesAscend ==
    adv'.started.task = "search" => adv'.started.term > current_search_term

\* No item is submitted twice: every add started is for a later candidate than
\* the last one submitted.
AddsAscend ==
    adv'.started.task = "add" =>
        Before(last_submitted, adv'.started.item_data.item_json)

C8_InvalidEnqueueRejected ==
    [][(/\ ev'.name \in EnqueueHandlers
        /\ \/ combo_root_folder = << >>
           \/ combo_quality_profile = << >>
           \/ ev'.no_input) =>
          /\ ev'.dialog \in ValidationWarnings
          /\ ~ev'.accepted
          /\ adv'.caller = ""
          /\ UNCHANGED << terms_to_add_queue, items_to_add_queue,
                          terms_to_add_total_count, search_thread, threads,
                          posted >>]_vars

\* An enqueue was rejected while a search was running and a term was pending.
C8_Witness ==
    /\ ev.name \in EnqueueHandlers
    /\ ev.dialog \in {"No Root Folder", "No Quality Profile"}
    /\ terms_to_add_queue # << >>
    /\ threads # {}

\* The last step finished the handling of a failed search or add.
FailureHandled == adv.caller \in CompletionSlots /\ ev.dialog \in ErrorDialogs

\* C9: a failed resolution or submission (a configuration error included) is
\* reported, changes neither queue, and the advance made afterwards goes on
\* with the next pending entry.
C9_FailureContained ==
    [][FailureHandled' =>
          /\ adv'.terms = terms_to_add_queue
          /\ adv'.items = items_to_add_queue
          /\ AdvancedWithPending' => adv'.started # None]_vars

\* The last step finished a search that queued nothing without being an
\* error: no candidate, or a chooser that was skipped.
NothingSelected ==
    /\ adv.caller = "on_search_finished"
    /\ ev.error = ""
    /\ \/ ev.results = 0 /\ ev.dialog = ""
       \/ ev.dialog = "SelectionDialog" /\ ~ev.accepted

\* C10: such a search appends no add item, shows no error dialog, and the
\* engine proceeds to the next pending entry.
C10_NoCandidateProceeds ==
    [][NothingSelected' =>
          /\ adv'.items = items_to_add_queue
          /\ ev'.dialog \notin ErrorDialogs
          /\ AdvancedWithPending' => adv'.started # None]_vars

\* The add items a selection step appended: those at the end of the queue the
\* step's process_next_item_in_queue() call found, behind the `before` items.
Appended(before, found) == SubSeq(found, Len(before) + 1, Len(found))

\* The candidates the step that has just run had to select from.
Offered ==
    IF modal.dlg = "SelectionDialog" THEN Range(modal.result)
    ELSE IF posted # << >> THEN Range(Head(posted).result)
    ELSE {}

\* Both combo boxes have a current entry.
DestinationResolved ==
    currentData(combo_root_folder) # 0 /\ currentData(combo_quality_profile) # 0

\* C11: handling a finished search presents the chooser exactly when the
\* search succeeded with two or more candidates; the chooser is never open
\* on fewer than two candidates.
C11_ChooserIffSeveral ==
    /\ ev.name = "on_search_finished" =>
          (ev.dialog = "SelectionDialog" <=> (ev.error = "" /\ ev.results >= 2))
    /\ modal.dlg = "SelectionDialog" =>
          (Len(modal.result) >= 2 /\ modal.error = "")

\* One candidate was found and handled without any dialog.
C11_Witness ==
    /\ ev.name = "on_search_finished"
    /\ ev.error = ""
    /\ ev.results = 1
    /\ ev.dialog = ""
    /\ adv.caller = "on_search_finished"

\* C12 as claimed: a step that selects k candidates (1 for a single result,
\* the k rows of an accepted chooser) appends exactly k add items behind
\* those already queued, one for each of k different offered candidates.
C12_SelectedAreAppended ==
    [][ev'.selected > 0 =>
          /\ IsPrefix(items_to_add_queue, adv'.items)
          /\ Len(adv'.items) = Len(items_to_add_queue) + ev'.selected
          /\ LET new == Appended(items_to_add_queue, adv'.items)
             IN  /\ \A i \in DOMAIN new : new[i].item_json \in Offered
                 /\ \A i, j \in DOMAIN new :
                       i < j => Before(new[i].item_json, new[j].item_json)]_vars

\* C12 as amended: it appends those k add items when both combo boxes have a
\* current entry at that moment, and none otherwise.
C12_SelectedAreAppendedIfResolved ==
    [][ev'.selected > 0 =>
          /\ IsPrefix(items_to_add_queue, adv'.items)
          /\ Len(adv'.items) = Len(items_to_add_queue)
                               + (IF DestinationResolved THEN ev'.selected ELSE 0)
          /\ LET new == Appended(items_to_add_queue, adv'.items)
             IN  /\ \A i \in DOMAIN new : new[i].item_json \in Offered
                 /\ \A i, j \in DOMAIN new :
                       i < j => Before(new[i].item_json, new[j].item_json)]_vars

\* A chooser was accepted with two rows selected and two add items were queued.
C12_Witness ==
    /\ ev.dialog = "SelectionDialog"
    /\ ev.selected = 2
    /\ Len(adv.items) = 2

\* C13: every add item in the queue, or found there by an advance, carries a
\* root folder and a quality profile.
C13_ItemsCarryDestination ==
    \A item \in Range(items_to_add_queue) \cup Range(adv.items) :
        item.root_folder_id # 0 /\ item.quality_profile_id # 0

\* A candidate was selected while a combo box was empty, and nothing was queued.
C13_Witness ==
    /\ ev.selected > 0
    /\ ~DestinationResolved
    /\ adv.caller = "on_search_finished"
    /\ adv.items = << >>

\* The last step handled a submission refused as a duplicate.
DuplicateHandled ==
    /\ ev.name = "on_add_finished"
    /\ Has400(ev.error)
    /\ HasAlreadyOrExist(ev.error)

\* C14: a submission refused with a 400 "already exists" error opens no
\* dialog, publishes nothing, and the advance made at once goes on with the
\* next pending entry.
C14_DuplicateSkipped ==
    DuplicateHandled =>
        /\ ev.dialog = ""
        /\ ~ev.published
        /\ adv.caller = "on_add_finished"
        /\ AdvancedWithPending => adv.started # None

\* C15: item_added is published in the step that handles a successful
\* submission, with the created record, and in no other step.
C15_ItemAddedCarriesRecord ==
    [][/\ ev'.published =>
             /\ ev'.name = "on_add_finished"
             /\ ev'.error = ""
             /\ posted # << >>
             /\ Head(posted).type = "finished"
             /\ Head(posted).ok
             /\ ev'.record = Head(posted).op.item_data.item_json
       /\ (ev'.name = "on_add_finished" /\ ev'.error = "" /\ ev'.dialog = "")
             => ev'.published]_vars

\* The call recorded is a finished _task_search_item of a Sonarr or Radarr tab.
ProwlarrSearchDone ==
    /\ call.name = "_task_search_item"
    /\ call.done
    /\ call.service \in {"sonarr", "radarr"}

\* What the secondary-indexer path came to in that call.
SecondaryPath ==
    prowlarr_path(call.service, call.enabled, call.prowlarr, call.configured,
                  call.answers)

SecondaryFailed == SecondaryPath.raised \/ SecondaryPath.value = << >>

\* C16: when the secondary path raises or finds nothing, the task comes to
\* what the direct lookup alone comes to, and that lookup is its last request.
C16_SecondaryNeverFails ==
    (ProwlarrSearchDone /\ SecondaryFailed) =>
        LET primary == RunTask(call.configured, call.response)
        IN  /\ call.out.raised = primary.raised
            /\ call.out.error = primary.error
            /\ call.out.value = primary.value
            /\ call.configured =>
                  /\ call.out.requests # << >>
                  /\ call.out.requests[Len(call.out.requests)] = <<"term", 0>>

\* The indexer search raised and the direct lookup still found a candidate.
C16_Witness ==
    /\ ProwlarrSearchDone
    /\ SecondaryPath.raised
    /\ call.enabled
    /\ ~call.out.raised
    /\ call.out.value # << >>

\* C17: when the secondary path finds candidates the task returns them, each
\* the record of a cross-reference lookup that hit, and never looks up the
\* raw term.
C17_SecondaryResultReturned ==
    (ProwlarrSearchDone /\ ~SecondaryFailed) =>
        /\ ~call.out.raised
        /\ call.out.value = SecondaryPath.value
        /\ \A c \in Range(call.out.value) : call.answers[c] = "hit"
        /\ <<"term", 0>> \notin Range(call.out.requests)

\* Two cross-reference lookups hit and both records were returned.
C17_Witness ==
    /\ ProwlarrSearchDone
    /\ ~call.out.raised
    /\ Len(call.out.value) = 2
    /\ call.response.raised

\* The call recorded is a finished _task_add_item for a Lidarr album.
AlbumAddDone ==
    /\ call.name = "_task_add_item"
    /\ call.done
    /\ call.service = "lidarr"
    /\ call.item_data.search_type = "album"

\* on_add_finished shows the "Add Error" box for this error.
Surfaced(error) == error # "" /\ ~(Has400(error) /\ HasAlreadyOrExist(error))

\* C18 as claimed: the task for an album raises the unsupported-operation
\* error, with no request issued, and the error reaches the user.
C18_AlbumUnsupported ==
    AlbumAddDone =>
        /\ call.out.raised
        /\ call.out.error = "unsupported"
        /\ call.out.requests = << >>
        /\ Surfaced(call.out.error)

\* C18 as amended: it raises with no request issued, the configuration error
\* when the URL or API key is not set and the unsupported-operation error
\* otherwise, and the error reaches the user.
C18_AlbumNeverPosted ==
    AlbumAddDone =>
        /\ call.out.raised
        /\ call.out.error = IF call.configured THEN "unsupported"
                            ELSE _get_arr_base_url(FALSE).error
        /\ call.out.requests = << >>
        /\ Surfaced(call.out.error)

\* An album was refused on a configured tab whose service would have
\* created the record.
C18_Witness ==
    /\ AlbumAddDone
    /\ call.configured
    /\ ~call.answer.raised
    /\ call.out.error = "unsupported"

\* C19: the movie payload takes tmdbId and title from the candidate, the
\* profile id and folder path from the add item, is monitored with the
\* search flag set, and has titleSlug, images, year exactly as the candidate.
C19_MoviePayload ==
    (call.name = "_build_add_payload" /\ call.done) =>
        LET item_json == call.item_data.item_json
            payload == call.out
        IN  /\ payload["tmdbId"] = Get(item_json, "tmdbId")
            /\ payload["title"] = Get(item_json, "title")
            /\ payload["qualityProfileId"] = call.item_data.quality_profile_id
            /\ payload["rootFolderPath"] = call.item_data.root_folder_path
            /\ payload["monitored"] = TRUE
            /\ payload["addOptions"] = [searchForMovie |-> TRUE]
            /\ \A k \in {"titleSlug", "images", "year"} :
                  /\ k \in DOMAIN payload <=> k \in DOMAIN item_json
                  /\ k \in DOMAIN item_json => payload[k] = item_json[k]

\* A payload was built for a candidate with a year and without images.
C19_Witness ==
    /\ call.name = "_build_add_payload"
    /\ call.done
    /\ "year" \in DOMAIN call.item_data.item_json
    /\ "images" \notin DOMAIN call.item_data.item_json
    /\ "tmdbId" \in DOMAIN call.item_data.item_json

CandidatesHandled ==
    /\ posted # << >>
    /\ Head(posted).type = "finished"
    /\ Head(posted).op.task = "search"
    /\ Head(posted).ok
    /\ Head(posted).result # << >>
    /\ posted' = Tail(posted)

\* C21: the add items made from the candidates of a search carry the search
\* type that search was dispatched with: it is the tab's current type when
\* the candidates are handled, it stays so while the chooser is open, and the
\* items appended carry it.
C21_SearchTypeAsDispatched ==
    [][/\ CandidatesHandled =>
             current_search_type = Head(posted).op.search_type
       /\ modal.dlg = "SelectionDialog" => UNCHANGED current_search_type
       /\ ev'.selected > 0 =>
             LET new == Appended(items_to_add_queue, adv'.items)
             IN  \A i \in DOMAIN new :
                    new[i].search_type = current_search_type]_vars


\* C24: the "Complete" notification is shown only by a
\* process_next_item_in_queue() call that finds no operation outstanding, both
\* queues empty and the counter non-zero, and it leaves the counter at 0; the
\* counter leaves 0 only in an accepted enqueue, so there is at most one
\* notification per accepted batch; a call that finds no operation, nothing
\* pending and the counter at 0 changes nothing.
C24_BatchCompleteOnce ==
    [][/\ adv'.outcome = "complete" =>
             /\ ~adv'.busy
             /\ adv'.items = << >>
             /\ adv'.terms = << >>
             /\ adv'.total > 0
             /\ adv'.started = None
             /\ terms_to_add_total_count' = 0
             /\ terms_to_add_queue' = << >>
             /\ items_to_add_queue' = << >>
             /\ search_thread' = None
             /\ threads' = {}
             /\ \A i \in DOMAIN posted' : posted'[i].type # "finished"
       /\ (terms_to_add_total_count = 0 /\ terms_to_add_total_count' > 0)
             => EnqueueAccepted'
       /\ adv'.outcome = "idle" =>
             /\ adv'.total = 0
             /\ adv'.started = None
             /\ terms_to_add_queue' = adv'.terms
             /\ items_to_add_queue' = adv'.items
             /\ UNCHANGED << terms_to_add_total_count, search_thread, threads >>
       /\ adv'.outcome # "complete" =>
             (terms_to_add_total_count' = terms_to_add_total_count
              \/ EnqueueAccepted')]_vars

\* A completion handler's advance found the batch done and said so.
C24_Witness ==
    /\ adv.outcome = "complete"
    /\ adv.caller \in CompletionSlots
    /\ adv.total > 0

\* C25: a process_next_item_in_queue() call that takes an entry off a queue
\* starts exactly one operation, for that entry, and no other step starts or
\* dequeues anything: operations started and entries dequeued go one to one.
C25_DequeueStartsOperation ==
    [][/\ adv'.outcome = "add" =>
             /\ adv'.items # << >>
             /\ adv'.started = AddOp(Head(adv'.items))
             /\ items_to_add_queue' = Tail(adv'.items)
             /\ terms_to_add_queue' = adv'.terms
       /\ adv'.outcome = "search" =>
             /\ adv'.terms # << >>
             /\ adv'.started = SearchOp(Head(adv'.terms), current_search_type')
             /\ terms_to_add_queue' = Tail(adv'.terms)
             /\ items_to_add_queue' = adv'.items
       /\ adv'.outcome \in {"add", "search"} =>
             /\ search_thread' = adv'.started
             /\ threads' = threads \cup {[op |-> adv'.started, phase |-> "run"]}
             /\ Cardinality(threads') = Cardinality(threads) + 1
       /\ adv'.outcome \notin {"add", "search"} =>
             /\ adv'.started = None
             /\ \A th \in threads' \ threads : th.phase # "run"
             /\ adv'.caller # "" =>
                   /\ terms_to_add_queue' = adv'.terms
                   /\ items_to_add_queue' = adv'.items]_vars

\* The second term's search was started by the handler of the first.
C25_Witness ==
    /\ adv.outcome = "search"
    /\ adv.caller \in CompletionSlots
    /\ adv.started.term = 2
    /\ \E th \in threads : th.op = adv.started

\* The step delivers worker.finished to its completion slot.
CompletionDelivered ==
    /\ posted # << >>
    /\ Head(posted).type = "finished"
    /\ posted' = Tail(posted)

\* C26: searches are started in the order the terms were enqueued and adds in
\* the order the candidates were selected (each is the head of its queue, and
\* later than every one started before), and the completion delivered is that
\* of the one operation started last.
C26_SubmissionOrder ==
    [][/\ SearchesAscend
       /\ AddsAscend
       /\ adv'.started.task = "search" => adv'.started.term = Head(adv'.terms)
       /\ adv'.started.task = "add" => adv'.started.item_data = Head(adv'.items)
       /\ EnqueueAccepted' =>
             \A i, j \in DOMAIN adv'.terms : i < j => adv'.terms[i] < adv'.terms[j]
       /\ ev'.selected > 0 =>
             /\ IsPrefix(items_to_add_queue, adv'.items)
             /\ \A i, j \in DOMAIN adv'.items :
                   i < j => Before(adv'.items[i].item_json, adv'.items[j].item_json)
       /\ CompletionDelivered =>
             /\ Head(posted).op = search_thread
             /\ \A i \in DOMAIN posted' : posted'[i].type # "finished"
             /\ Head(posted).op.task = "search" =>
                   Head(posted).op.term = current_search_term
             /\ Head(posted).op.task = "add" =>
                   Head(posted).op.item_data.item_json = last_submitted]_vars

\* The second selected candidate is submitted after the first.
C26_Witness ==
    /\ adv.started.task = "add"
    /\ adv.started.item_data.item_json[2] = 2
    /\ adv.caller = "on_add_finished"


\* The call recorded is a finished _task_prowlarr_to_arr_lookup on a tab
\* whose URL and API key are set.
CrossReferenceDone ==
    /\ call.name = "_task_prowlarr_to_arr_lookup"
    /\ call.done
    /\ call.configured

\* The indexer results the step may examine, and the provider ids they carry.
Examined ==
    SubSeq(call.prowlarr_results, 1,
           IF Len(call.prowlarr_results) < 10 THEN Len(call.prowlarr_results)
           ELSE 10)

ExaminedIds ==
    {lookup_id(call.service, Examined[i]) : i \in DOMAIN Examined} \ {NoLookup}

\* Where an id first appears among the examined results.
FirstAt(id) ==
    CHOOSE i \in DOMAIN Examined :
        /\ lookup_id(call.service, Examined[i]) = id
        /\ \A j \in 1..(i - 1) : lookup_id(call.service, Examined[j]) # id

NoRepeats(seq) == \A i, j \in DOMAIN seq : i # j => seq[i] # seq[j]

InFirstAppearanceOrder(seq) ==
    \A i, j \in DOMAIN seq : i < j => FirstAt(seq[i]) < FirstAt(seq[j])

\* C29: the lookups made are exactly one for each provider id carried by the
\* first 10 indexer results, in the order the ids first appear; the candidates
\* returned are the first records of exactly those lookups that found one, in
\* the same order; a lookup that raises or finds nothing only contributes
\* nothing.
C29_CrossReference ==
    CrossReferenceDone =>
        /\ ~call.out.raised
        /\ Range(call.out.requests) = ExaminedIds
        /\ NoRepeats(call.out.requests)
        /\ InFirstAppearanceOrder(call.out.requests)
        /\ Range(call.out.value) =
              {id \in ExaminedIds : call.answers[id] = "hit"}
        /\ NoRepeats(call.out.value)
        /\ InFirstAppearanceOrder(call.out.value)

\* Eleven results: the eleventh carries an id of its own and is not looked
\* up, while the lookups made for the results before it found no record.
C29_Witness ==
    /\ CrossReferenceDone
    /\ Len(call.prowlarr_results) > 10
    /\ lookup_id(call.service, call.prowlarr_results[11]) \notin ExaminedIds \cup {NoLookup}
    /\ call.out.requests # << >>
    /\ call.out.value = << >>

\* The run recorded is an ApiWorker.run() that has ended.
WorkerRunEnded == call.name = "ApiWorker.run" /\ call.pc = "end"

\* C30 as claimed: a run emits finished exactly once, with what the task
\* returned or raised, unless stop() was called before the task ended, and
\* never then.
C30_FinishedOnceUnlessStoppedInTask ==
    /\ call.name = "ApiWorker.run" => Len(call.emitted) <= 1
    /\ WorkerRunEnded =>
          call.emitted = IF call.stopped = "start" THEN << >>
                         ELSE << ApiWorker_finished(None, call.task) >>

\* C30 as amended: a run emits finished exactly once, with what the task
\* returned or raised, unless stop() was called before run() read is_running,
\* which it does after the task has ended, and never then.
C30_FinishedOnceUnlessStopped ==
    /\ call.name = "ApiWorker.run" =>
          /\ Len(call.emitted) <= 1
          /\ call.pc # "end" => call.emitted = << >>
    /\ WorkerRunEnded =>
          call.emitted = IF call.stopped \in {"start", "task"} THEN << >>
                         ELSE << ApiWorker_finished(None, call.task) >>

\* A run whose task raised was stopped only after finished had been emitted.
C30_Witness ==
    /\ WorkerRunEnded
    /\ call.stopped = "end"
    /\ call.task.raised
    /\ call.emitted # << >>
    /\ ~call.emitted[1].ok


\* The step published an add request on the event bus.
AddRequestPublished ==
    bus_ev'.op = "publish" /\ bus_ev'.name = "add_to_arr_requested"

\* The tab t takes the request just published: it is named, in any case of
\* letters, the term is not empty and both its combo boxes are loaded.
TakesRequest(t) ==
    /\ Lower(bus_ev'.service) = t
    /\ bus_ev'.search_term # ""
    /\ tabs[t].root_count > 0
    /\ tabs[t].profile_count > 0

\* C27: an add request naming service S leaves every tab not named S (in any
\* case of letters) as it was; the tab named S stores the term and starts its
\* search exactly when it has no operation of its own outstanding, whatever
\* the other tabs are doing; no other bus call changes a tab.
C27_OnlyNamedTabChanges ==
    [][/\ AddRequestPublished =>
             \A t \in TabNames :
                /\ Lower(bus_ev'.service) # t => tabs'[t] = tabs[t]
                /\ TakesRequest(t) =>
                      /\ tabs'[t].terms_to_add_total_count = 1
                      /\ tabs'[t].nextTerm = tabs[t].nextTerm + 1
                      /\ IF tabs[t].search_thread = None
                         THEN /\ tabs'[t].search_thread.task = "search"
                              /\ tabs'[t].search_thread.term = tabs[t].nextTerm
                              /\ tabs'[t].terms_to_add_queue = << >>
                         ELSE /\ tabs'[t].search_thread = tabs[t].search_thread
                              /\ tabs'[t].terms_to_add_queue = << tabs[t].nextTerm >>
       /\ (bus_ev'.op # "" /\ ~AddRequestPublished) => UNCHANGED tabs]_vars

\* A request for "RADARR" started the Radarr tab's search while the Sonarr
\* tab had a search of its own outstanding.
C27_Witness ==
    /\ bus_ev.name = "add_to_arr_requested"
    /\ bus_ev.service = "RADARR"
    /\ tabs["sonarr"].search_thread # None
    /\ tabs["radarr"].search_thread # None
    /\ tabs["radarr"].search_thread.term = tabs["radarr"].nextTerm - 1
    /\ tabs["radarr"].terms_to_add_queue = << >>

\* C28: publishing a name outside the registry invokes no slot, subscribing
\* to one connects nothing, both are logged as a problem, and publishing a
\* registered name invokes the slots connected to it.
C28_UnknownNamesRejected ==
    [][/\ (bus_ev'.op = "publish" /\ bus_ev'.name \notin Registry) =>
             /\ bus_ev'.invoked = {}
             /\ bus_ev'.log \in {"warning", "error"}
             /\ UNCHANGED << connections, tabs >>
       /\ (bus_ev'.op = "subscribe" /\ bus_ev'.name \notin Registry) =>
             /\ bus_ev'.log \in {"warning", "error"}
             /\ UNCHANGED connections
       /\ \A n \in EventNames \ Registry : connections'[n] = {}
       /\ (bus_ev'.op = "publish" /\ bus_ev'.name \in Registry) =>
             bus_ev'.invoked = connections[bus_ev'.name]]_vars


\* C22: once the plugin's cleanup has run, no completion callback of the tab
\* is acted upon: neither queue changes, no dialog opens, no operation is
\* started and no event is published.
C22_NoCallbackAfterTeardown ==
    [][cleaned_up =>
          /\ UNCHANGED << terms_to_add_queue, items_to_add_queue >>
          /\ modal'.dlg # "none" => modal' = modal
          /\ adv'.started = None
          /\ ~ev'.published]_vars

ThreadAttr(task) ==
    IF task = "status" THEN status_thread
    ELSE IF task = "folders" THEN folders_thread
    ELSE profiles_thread

MaxRows == 3

\* The orders a sort of the table can put n rows in: order[row] is the index
\* in self.results of the candidate the row displays.
RowOrders(n) ==
    {p \in [1..n -> 1..n] : \A i, j \in 1..n : i # j => p[i] # p[j]}

\* SelectionDialog(service, search_term, results): results holds n candidates.
\* setSortingEnabled(True) precedes the filling of the table, so the rows are
\* in the order the header's sort indicator puts them.
ChooserCall(n, p) ==
    [name |-> "SelectionDialog", done |-> FALSE,
     results |-> [i \in 1..n |-> <<1, i>>], order |-> p, picked |-> {},
     selected_items |-> << >>, returned |-> "", warned |-> FALSE]

ChooserCalls ==
    UNION {{ChooserCall(n, p) : p \in RowOrders(n)} : n \in 2..MaxRows}

ChooserOpen == call.name = "SelectionDialog" /\ ~call.done

\* The rows whose items are selected: item.row() of table.selectedItems().
SelectedRows(c) == {row \in DOMAIN c.order : c.order[row] \in c.picked}

\* The candidates those rows display.
DisplayedInSelection(c) == {c.results[c.order[row]] : row \in SelectedRows(c)}

\* [self.results[row] for row in rows], rows a sorted list.
results_at(results, rows) ==
    [i \in 1..Cardinality(rows) |-> results[Ascending(rows)[i]]]

\* The user clicks a column header: the rows are sorted by that column, the
\* selected items stay selected.
sort_table ==
    /\ ChooserOpen
    /\ \E p \in RowOrders(Len(call.results)) :
         call' = [call EXCEPT !.order = p, !.warned = FALSE]
    /\ UNCHANGED tab_vars

\* The user changes the selection (ExtendedSelection, whole rows).
select_rows ==
    /\ ChooserOpen
    /\ \E rows \in SUBSET DOMAIN call.order :
         call' = [call EXCEPT !.picked = {call.order[row] : row \in rows},
                              !.warned = FALSE]
    /\ UNCHANGED tab_vars

\* validate_and_accept(): "Select" was clicked.
validate_and_accept ==
    /\ ChooserOpen
    /\ LET selected_rows == SelectedRows(call)
       IN  IF selected_rows = {}
           THEN call' = [call EXCEPT !.warned = TRUE]
           ELSE call' = [call EXCEPT
                           !.selected_items = results_at(call.results, selected_rows),
                           !.returned = "accepted", !.done = TRUE]
    /\ UNCHANGED tab_vars

\* on_double_click(item): a cell of some row was double-clicked.
on_double_click ==
    /\ ChooserOpen
    /\ \E row \in DOMAIN call.order :
         call' = [call EXCEPT !.picked = {call.order[row]},
                              !.selected_items = results_at(call.results, {row}),
                              !.returned = "accepted", !.done = TRUE]
    /\ UNCHANGED tab_vars

\* "Skip" was clicked or the dialog was closed: reject().
reject ==
    /\ ChooserOpen
    /\ call' = [call EXCEPT !.returned = "rejected", !.done = TRUE]
    /\ UNCHANGED tab_vars

ChooserNext ==
    \/ sort_table
    \/ select_rows
    \/ validate_and_accept
    \/ on_double_click
    \/ reject

ChooserInit ==
    /\ TabInit
    /\ BusInit
    /\ call \in ChooserCalls

ChooserSpec == ChooserInit /\ [][ChooserNext]_vars

\* C31: an accepted chooser returns exactly the candidates displayed in the
\* selected rows, a non-empty subset of those presented, whatever order the
\* table is sorted in; a skipped chooser returns none.
C31_ReturnsDisplayedSelection ==
    (call.name = "SelectionDialog" /\ call.done) =>
        IF call.returned = "accepted"
        THEN /\ call.selected_items # << >>
             /\ Range(call.selected_items) \subseteq Range(call.results)
             /\ Range(call.selected_items) = DisplayedInSelection(call)
        ELSE call.selected_items = << >>

\* ---------------------------------------------------------- JellyfinTab
\* The Jellyfin tab of plugins/plugin_jellyfin.py: its apply queue, its
\* readiness check and its item list with the cache.  The tab is the record
\* held in `call`; its QThreads and the GUI thread's queue are `threads` and
\* `posted`.  An item list is known by the type it was fetched for and by
\* whether it holds items.
MaxJobs == 3

ItemTypes == {"Movie", "Series"}

NoItems == [type |-> "", count |-> 0]

\* The last list_items call: nothing yet.
NoListing == [force_refresh |-> FALSE, item_type |-> "", served |-> ""]

\* JellyfinTab.__init__
JellyfinTab0 ==
    [name |-> "JellyfinTab", done |-> FALSE,
     apply_queue |-> << >>, apply_job_running |-> FALSE,
     apply_thread |-> None, status_thread |-> None, list_thread |-> None,
     item_cache |-> NoItems, cache_fresh |-> FALSE, type_combo |-> "Movie",
     items |-> NoItems, btn_list |-> TRUE, box |-> "", retry |-> FALSE,
     nextJob |-> 1,
     started |-> << >>, dropped |-> {}, finished |-> 0, pinged |-> FALSE,
     listing |-> NoListing]

IsJellyfin == call.name = "JellyfinTab"

\* JellyfinTab._start_worker(thread_attr, ...) on the tab value c: the same
\* code as ArrTab._start_worker.
jf_start_worker(c, thread_attr, op) ==
    LET r == _start_worker([search_thread |-> c[thread_attr]], op)
    IN  [tab |-> [c EXCEPT ![thread_attr] = r.tab.search_thread],
         started |-> IF r.started = None THEN {} ELSE {r.started}]

\* process_next_apply_job(): the job it pops is recorded as started, or as
\* dropped when _start_worker refused it.
process_next_apply_job(c) ==
    IF c.apply_job_running \/ c.apply_queue = << >>
    THEN [tab |-> c, started |-> {}]
    ELSE LET job == Head(c.apply_queue)
             r == jf_start_worker([c EXCEPT !.apply_job_running = TRUE,
                                            !.apply_queue = Tail(@)],
                                  "apply_thread", RefreshOp("apply"))
         IN  [tab |-> IF r.started = {}
                      THEN [r.tab EXCEPT !.dropped = @ \cup {job}]
                      ELSE [r.tab EXCEPT !.started = Append(@, job)],
              started |-> r.started]

\* check_jellyfin_readiness()
check_jellyfin_readiness(c) ==
    IF c.apply_queue = << >> THEN [tab |-> c, started |-> {}]
    ELSE jf_start_worker(c, "status_thread", RefreshOp("ping"))

\* The operation of a fetch of the items of item_type.
ListOp(item_type) ==
    [task |-> "list", term |-> 0, search_type |-> item_type, item_data |-> NoItem]

\* list_items(force_refresh): the cache is served when it is not empty and
\* not older than CACHE_DURATION_SECONDS, else the two list buttons are
\* disabled and a fetch is started.
list_items(c, force_refresh) ==
    LET item_type == c.type_combo
        asked == [force_refresh |-> force_refresh, item_type |-> item_type,
                  served |-> ""]
    IN  IF ~force_refresh /\ c.item_cache.count > 0 /\ c.cache_fresh
        THEN [tab |-> [c EXCEPT !.items = c.item_cache,
                                !.listing = [asked EXCEPT !.served = "cache"]],
              started |-> {}]
        ELSE LET r == jf_start_worker([c EXCEPT !.btn_list = FALSE],
                                      "list_thread", ListOp(item_type))
             IN  [tab |-> [r.tab EXCEPT !.listing =
                              [asked EXCEPT !.served = IF r.started = {}
                                                       THEN "refused"
                                                       ELSE "fetch"]],
                  started |-> r.started]

\* What a Jellyfin handler leaves alone.
JellyfinFrame ==
    /\ TabUnchanged
    /\ UNCHANGED << combo_root_folder, combo_quality_profile, modal, nextTerm,
                    adv, ev, last_submitted, env_vars >>

\* The handler returns with the tab as r.tab, having started r.started.
JellyfinCommit(r) ==
    /\ call' = r.tab
    /\ threads' = threads \cup {[op |-> o, phase |-> "run"] : o \in r.started}
    /\ JellyfinFrame

\* The user can act on the tab or on the identify dialog opened from it.
JellyfinInput == IsJellyfin /\ call.box = "" /\ ~cleaned_up

\* apply_identification(item_id, selected_result): from an identify dialog.
apply_identification ==
    /\ JellyfinInput
    /\ call.nextJob <= MaxJobs
    /\ JellyfinCommit(process_next_apply_job(
           [call EXCEPT !.apply_queue = Append(@, call.nextJob),
                        !.nextJob = @ + 1, !.listing = NoListing]))
    /\ UNCHANGED posted

\* The user picks another entry of type_combo.
change_item_type ==
    /\ JellyfinInput
    /\ \E item_type \in ItemTypes \ {call.type_combo} :
         call' = [call EXCEPT !.type_combo = item_type, !.listing = NoListing]
    /\ UNCHANGED << posted, threads >>
    /\ JellyfinFrame

\* CACHE_DURATION_SECONDS have passed since last_fetch_time.
cache_expires ==
    /\ IsJellyfin
    /\ call.cache_fresh
    /\ call' = [call EXCEPT !.cache_fresh = FALSE, !.listing = NoListing]
    /\ UNCHANGED << posted, threads >>
    /\ JellyfinFrame

\* on_list_items_clicked() and on_force_refresh_clicked()
list_items_clicked ==
    /\ JellyfinInput
    /\ call.btn_list
    /\ \E force_refresh \in BOOLEAN :
         JellyfinCommit(list_items(call, force_refresh))
    /\ UNCHANGED posted

\* check_jellyfin_status(): the slot of request_all_status.
check_jellyfin_status ==
    /\ JellyfinInput
    /\ JellyfinCommit(jf_start_worker([call EXCEPT !.listing = NoListing],
                                      "status_thread", RefreshOp("ping")))
    /\ UNCHANGED posted

\* on_apply_finished(result, error), up to the error box it may open.
on_apply_finished ==
    /\ IsJellyfin
    /\ call.box = ""
    /\ Delivered("apply")
    /\ LET c == [call EXCEPT !.apply_job_running = FALSE, !.finished = 1,
                             !.pinged = FALSE, !.listing = NoListing]
       IN  IF ~Head(posted).ok
           THEN JellyfinCommit([tab |-> [c EXCEPT !.box = "apply"],
                                started |-> {}])
           ELSE LET l == list_items(c, TRUE)
                    r == check_jellyfin_readiness(l.tab)
                IN  JellyfinCommit([tab |-> r.tab,
                                    started |-> l.started \cup r.started])

\* The error box of on_apply_finished is dismissed: the handler goes on.
close_apply_error ==
    /\ IsJellyfin
    /\ call.box = "apply"
    /\ JellyfinCommit(check_jellyfin_readiness(
           [call EXCEPT !.box = "", !.listing = NoListing]))
    /\ UNCHANGED posted

\* on_jellyfin_status_checked(result, error)
on_jellyfin_status_checked ==
    /\ IsJellyfin
    /\ call.box = ""
    /\ Delivered("ping")
    /\ IF ~Head(posted).ok
       THEN JellyfinCommit([tab |-> [call EXCEPT !.retry = TRUE,
                                                 !.listing = NoListing],
                            started |-> {}])
       ELSE JellyfinCommit(process_next_apply_job(
                [call EXCEPT !.pinged = TRUE, !.listing = NoListing]))

\* QTimer.singleShot(5000, self.check_jellyfin_readiness) fires.
readiness_timer ==
    /\ IsJellyfin
    /\ call.retry
    /\ JellyfinCommit(check_jellyfin_readiness(
           [call EXCEPT !.retry = FALSE, !.listing = NoListing]))
    /\ UNCHANGED posted

\* on_list_finished(result, error), up to the error box it may open.
on_list_finished ==
    /\ IsJellyfin
    /\ call.box = ""
    /\ Delivered("list")
    /\ LET e == Head(posted)
           result == [type |-> e.op.search_type, count |-> e.result[1]]
       IN  IF ~e.ok
           THEN JellyfinCommit([tab |-> [call EXCEPT !.box = "list",
                                                     !.btn_list = TRUE,
                                                     !.listing = NoListing],
                                started |-> {}])
           ELSE JellyfinCommit([tab |-> [call EXCEPT !.items = result,
                                                     !.item_cache = result,
                                                     !.cache_fresh = TRUE,
                                                     !.btn_list = TRUE,
                                                     !.listing = NoListing],
                                started |-> {}])

\* The error box of on_list_finished is dismissed.
close_list_error ==
    /\ IsJellyfin
    /\ call.box = "list"
    /\ JellyfinCommit([tab |-> [call EXCEPT !.box = "", !.listing = NoListing],
                       started |-> {}])
    /\ UNCHANGED posted

\* lambda: setattr(self, thread_attr, None) of a Jellyfin thread.
clear_jellyfin_thread ==
    /\ IsJellyfin
    /\ ~InCloseEvent
    /\ posted # << >>
    /\ Head(posted).type = "clear_thread"
    /\ posted' = Tail(posted)
    /\ LET task == Head(posted).op.task
           thread_attr == IF task = "apply" THEN "apply_thread"
                          ELSE IF task = "ping" THEN "status_thread"
                          ELSE "list_thread"
       IN  call' = [call EXCEPT ![thread_attr] = None, !.listing = NoListing]
    /\ UNCHANGED threads
    /\ JellyfinFrame

\* The apply queue with its readiness check, and the list refresh that a
\* finished apply job forces.
ApplyNext ==
    \/ apply_identification
    \/ check_jellyfin_status
    \/ on_apply_finished
    \/ close_apply_error
    \/ on_jellyfin_status_checked
    \/ readiness_timer
    \/ on_list_finished
    \/ close_list_error
    \/ clear_jellyfin_thread
    \/ ApiWorker_run
    \/ thread_quit
    \/ QThread_finished

\* The item list with its cache.
ListNext ==
    \/ change_item_type
    \/ cache_expires
    \/ list_items_clicked
    \/ on_list_finished
    \/ close_list_error
    \/ clear_jellyfin_thread
    \/ ApiWorker_run
    \/ thread_quit
    \/ QThread_finished

JellyfinInit ==
    /\ TabInit
    /\ BusInit
    /\ call = JellyfinTab0

ApplySpec == JellyfinInit /\ [][ApplyNext]_vars

ListSpec == JellyfinInit /\ [][ListNext]_vars

\* An apply worker is outstanding: its thread has not delivered its outcome.
ApplyOutstanding ==
    \/ \E th \in threads : th.op.task = "apply" /\ th.phase = "run"
    \/ \E i \in 1..Len(posted) :
         posted[i].type = "finished" /\ posted[i].op.task = "apply"

\* C32: every job appended to apply_queue is started exactly once as an apply
\* worker: no job is dequeued and then refused by _start_worker, no job is
\* started twice, at most one apply worker is outstanding, and
\* apply_job_running is true only while an apply worker is outstanding.
C32_EveryJobStartedOnce ==
    IsJellyfin =>
        /\ call.dropped = {}
        /\ \A i, j \in 1..Len(call.started) :
             call.started[i] = call.started[j] => i = j
        /\ Cardinality({th \in threads : th.op.task = "apply"
                                         /\ th.phase = "run"}) <= 1
        /\ call.apply_job_running => ApplyOutstanding

\* The outcome of a status ping is being delivered.
PingDelivered(ok) ==
    /\ posted # << >>
    /\ Head(posted).type = "finished"
    /\ Head(posted).op.task = "ping"
    /\ Head(posted).ok = ok
    /\ posted' = Tail(posted)

\* C33: once an apply job has finished, a job that was waiting in apply_queue
\* is started only after a status ping has succeeded since that finish, and a
\* failed ping starts no job and arms the retry of the readiness check.
C33_NextJobAfterPing ==
    [][IsJellyfin =>
        /\ (/\ call.finished > 0
            /\ call.apply_queue # << >>
            /\ Len(call'.started) > Len(call.started)
            /\ call'.started[Len(call'.started)] = Head(call.apply_queue))
           => call'.pinged
        /\ PingDelivered(FALSE)
           => call'.retry /\ call'.started = call.started]_vars

\* C36: list_items without force-refresh serves the cache only if it is not
\* empty, still fresh and was fetched for the item type selected at the call,
\* so the table never shows items of another type than the one selected when
\* list_items was called; a force-refresh always issues a new fetch.
C36_CacheOfSelectedType ==
    [][(IsJellyfin /\ call'.listing.served # "") =>
        /\ call'.listing.served = "cache"
           => /\ ~call'.listing.force_refresh
              /\ call.item_cache.count > 0
              /\ call.cache_fresh
              /\ call.item_cache.type = call'.listing.item_type
              /\ call'.items.type = call'.listing.item_type
        /\ call'.listing.force_refresh
           => call'.listing.served = "fetch"]_vars

\* The worker of the task is outstanding, or one of its callbacks (the
\* completion slot, the quit of its thread, the clearing of its attribute) is
\* still to be delivered.
WorkerPending(task) ==
    \/ \E th \in threads : th.op.task = task
    \/ \E i \in 1..Len(posted) : posted[i].op.task = task

\* C34: the 'Check Status' and the two 'Refresh' buttons are disabled only
\* while their worker is outstanding: whenever the worker is not outstanding
\* and none of its callbacks is pending, the button is enabled.
C34_ButtonsEnabledWhenIdle ==
    /\ ~WorkerPending("status") => buttons.btn_check_status
    /\ ~WorkerPending("folders") => buttons.btn_refresh_folders
    /\ ~WorkerPending("profiles") => buttons.btn_refresh_profiles

\* ---------------------------------------------------- BulkIdentifyDialog
\* The searches one dialog can start, and the items it walks through.
MaxSearches == 3
MaxItems == 2

\* The remote search number n.
RemoteSearchOp(n) ==
    [task |-> "remote_search", term |-> n, search_type |-> "", item_data |-> NoItem]

\* What _task_remote_search can do: return the matches or raise.
RemoteSearchOutcomes ==
    {[raised |-> TRUE, error |-> "net", value |-> << >>],
     [raised |-> FALSE, error |-> "", value |-> <<1>>]}

\* BulkIdentifyDialog.__init__: no search yet, an empty table.  api_thread,
\* api_worker, table, search_results and box hold the number of a search, 0
\* for None or nothing; workers[n] is the ApiWorker of search n.
BulkIdentifyDialog0 ==
    [name |-> "BulkIdentifyDialog", done |-> FALSE, current_item_index |-> 0,
     api_thread |-> 0, api_worker |-> 0, btn_search |-> TRUE, table |-> 0,
     search_results |-> 0, box |-> 0, workers |-> << >>,
     applied |-> [item |-> 0, search |-> 0], stale_quit |-> FALSE,
     crashed |-> FALSE]

IsIdentify == call.name = "BulkIdentifyDialog"

\* ApiWorker.run() of search n, from its read of is_running on: what it emits.
identify_emits(c, n) ==
    LET out == run_emits(c.workers[n].is_running, c.workers[n].task)
    IN  [i \in DOMAIN out |-> [out[i] EXCEPT !.op = RemoteSearchOp(n)]]

\* api_thread.quit(); api_thread.wait(1000) on the thread of search m, after
\* which the dialog drops its reference to the QThread.  The thread ends when
\* run() has returned: in_time says whether a task still running returns
\* within the second.  If it does, run() emits as is_running tells it to; if
\* it does not, the QThread is destroyed while it is running, which ends the
\* program.
quit_and_wait(c, m, in_time) ==
    LET w == c.workers[m]
    IN  IF w.pc = "end" THEN [dialog |-> c, emitted |-> << >>]
        ELSE IF w.pc = "start" /\ ~in_time
        THEN [dialog |-> [c EXCEPT !.crashed = TRUE], emitted |-> << >>]
        ELSE [dialog |-> [c EXCEPT !.workers[m].pc = "end"],
              emitted |-> identify_emits(c, m)]

\* start_search(is_auto_search): the worker in flight, if any, is told to
\* stop and its thread to quit; the table is emptied and a new worker started.
start_search(c, task, in_time) ==
    IF c.current_item_index = 0 THEN [dialog |-> c, emitted |-> << >>]
    ELSE LET stopped == IF c.api_thread # 0 /\ c.api_worker # 0
                        THEN [c EXCEPT !.workers[c.api_worker].is_running = FALSE]
                        ELSE c
             r == IF c.api_thread # 0
                  THEN quit_and_wait(stopped, c.api_thread, in_time)
                  ELSE [dialog |-> c, emitted |-> << >>]
             n == Len(c.workers) + 1
         IN  IF r.dialog.crashed THEN r
             ELSE [dialog |-> [r.dialog EXCEPT
                                 !.btn_search = FALSE, !.table = 0,
                                 !.api_thread = n, !.api_worker = n,
                                 !.workers = Append(@,
                                     [item |-> c.current_item_index,
                                      pc |-> "start", is_running |-> TRUE,
                                      task |-> task])],
                   emitted |-> r.emitted]

\* load_next_item(): the next item of items_list, or the end of the dialog.
load_next_item(c, task, in_time) ==
    IF c.current_item_index + 1 > MaxItems
    THEN [dialog |-> [c EXCEPT !.current_item_index = @ + 1, !.done = TRUE],
          emitted |-> << >>]
    ELSE start_search([c EXCEPT !.current_item_index = @ + 1], task, in_time)

\* The dialog is open and no message box is in front of it.
IdentifyInput ==
    IsIdentify /\ ~call.done /\ ~call.crashed /\ call.box = 0

IdentifyCommit(r) ==
    /\ call' = r.dialog
    /\ posted' = posted \o r.emitted
    /\ UNCHANGED threads
    /\ JellyfinFrame

\* 'Search' is clicked.
search_clicked ==
    /\ IdentifyInput
    /\ call.btn_search
    /\ Len(call.workers) < MaxSearches
    /\ \E task \in RemoteSearchOutcomes, in_time \in BOOLEAN :
         IdentifyCommit(start_search(call, task, in_time))

\* 'Skip' is clicked, or the timer of __init__ fires.
skip_clicked ==
    /\ IdentifyInput
    /\ Len(call.workers) < MaxSearches
    /\ \E task \in RemoteSearchOutcomes, in_time \in BOOLEAN :
         IdentifyCommit(load_next_item(call, task, in_time))

\* on_apply_next(): 'Apply & Next' with a row of the table selected.
on_apply_next ==
    /\ IdentifyInput
    /\ call.table # 0
    /\ Len(call.workers) < MaxSearches
    /\ \E task \in RemoteSearchOutcomes, in_time \in BOOLEAN :
         IdentifyCommit(load_next_item(
             [call EXCEPT !.applied = [item |-> call.current_item_index,
                                       search |-> call.search_results]],
             task, in_time))

\* ApiWorker.run() of a search: the task returns or raises.
remote_search_returns ==
    /\ IsIdentify
    /\ ~call.crashed
    /\ \E n \in DOMAIN call.workers :
         /\ call.workers[n].pc = "start"
         /\ call' = [call EXCEPT !.workers[n].pc = "task"]
    /\ UNCHANGED << posted, threads >>
    /\ JellyfinFrame

\* ApiWorker.run() of a search: is_running is read and finished is emitted.
remote_search_emits ==
    /\ IsIdentify
    /\ ~call.crashed
    /\ \E n \in DOMAIN call.workers :
         /\ call.workers[n].pc = "task"
         /\ call' = [call EXCEPT !.workers[n].pc = "end"]
         /\ posted' = posted \o identify_emits(call, n)
    /\ UNCHANGED threads
    /\ JellyfinFrame

\* BulkIdentifyDialog.on_search_finished(result, error), up to its error box.
identify_search_finished ==
    /\ IdentifyInput
    /\ posted # << >>
    /\ Head(posted).type = "finished"
    /\ Head(posted).op.task = "remote_search"
    /\ \E in_time \in BOOLEAN :
         LET e == Head(posted)
             n == e.op.term
             r == IF call.api_thread # 0
                  THEN quit_and_wait(call, call.api_thread, in_time)
                  ELSE [dialog |-> call, emitted |-> << >>]
             c == [r.dialog EXCEPT !.api_thread = 0, !.api_worker = 0,
                                   !.btn_search = TRUE,
                                   !.stale_quit = @ \/ call.api_thread \notin {0, n}]
         IN  /\ call' = IF r.dialog.crashed THEN r.dialog
                        ELSE IF ~e.ok THEN [c EXCEPT !.box = n]
                        ELSE [c EXCEPT !.search_results = n, !.table = n]
             /\ posted' = Tail(posted) \o r.emitted
    /\ UNCHANGED threads
    /\ JellyfinFrame

\* The 'Search Error' box is dismissed.
close_identify_error ==
    /\ IsIdentify
    /\ call.box # 0
    /\ call' = [call EXCEPT !.box = 0]
    /\ UNCHANGED << posted, threads >>
    /\ JellyfinFrame

IdentifyNext ==
    \/ search_clicked
    \/ skip_clicked
    \/ on_apply_next
    \/ remote_search_returns
    \/ remote_search_emits
    \/ identify_search_finished
    \/ close_identify_error

IdentifyInit ==
    /\ TabInit
    /\ BusInit
    /\ call = BulkIdentifyDialog0

IdentifySpec == IdentifyInit /\ [][IdentifyNext]_vars

\* C35: when a search is started while an earlier one is in flight, the
\* earlier search's outcome is never displayed (in the table or in an error
\* box) nor applied, its completion never quits the newer worker's thread,
\* and once the newest search has completed the table shows its results.
C35_OnlyNewestSearchShown ==
    IsIdentify =>
        LET newest == Len(call.workers)
        IN  /\ call.table \in {0, newest}
            /\ call.box \in {0, newest}
            /\ ~call.stale_quit
            /\ call.applied.search # 0
               => call.workers[call.applied.search].item = call.applied.item

====
